---------------------------- MODULE Spec2Model ----------------------------
(***************************************************************************)
(* A model of the NEAR-intents swap core of N-agent:                       *)
(*   - the token catalog cache   (lib/near/knowledge-base.ts)              *)
(*   - the swap quote engine     (lib/near/swap.ts)                        *)
(* Strings are sequences of one-character strings, so that toUpperCase is  *)
(* computed character by character.                                        *)
(***************************************************************************)
EXTENDS Integers, Sequences, FiniteSets, TLC

(***************************************************************************)
(* Bounds of the model.                                                    *)
(***************************************************************************)
\* longest raw array the catalog endpoint answers with
MaxItems == 2
\* number of times the clock advances
MaxTicks == 2
\* Date.now() when the process starts
StartTime == 1
\* number of chat requests sent
MaxRequests == 3
\* number of polls the interval starts
MaxPolls == 2
\* number of entries of a payload
MaxBatch == 3

(***************************************************************************)
(* JavaScript strings and values.                                          *)
(***************************************************************************)
LowerLetters == <<"a","b","c","d","e","f","g","h","i","j","k","l","m",
                  "n","o","p","q","r","s","t","u","v","w","x","y","z">>
UpperLetters == <<"A","B","C","D","E","F","G","H","I","J","K","L","M",
                  "N","O","P","Q","R","S","T","U","V","W","X","Y","Z">>

UpperChar(ch) ==
    IF \E i \in 1..26 : LowerLetters[i] = ch
    THEN UpperLetters[CHOOSE i \in 1..26 : LowerLetters[i] = ch]
    ELSE ch

\* String.prototype.toUpperCase
toUpperCase(s) == [i \in 1..Len(s) |-> UpperChar(s[i])]

LowerChar(ch) ==
    IF \E i \in 1..26 : UpperLetters[i] = ch
    THEN LowerLetters[CHOOSE i \in 1..26 : UpperLetters[i] = ch]
    ELSE ch

\* String.prototype.toLowerCase
toLowerCase(s) == [i \in 1..Len(s) |-> LowerChar(s[i])]

\* String.prototype.indexOf, counted from 1 (0 when pattern does not occur)
IndexOf(s, pattern) ==
    LET at == { i \in 1..(Len(s) - Len(pattern) + 1) :
                  SubSeq(s, i, i + Len(pattern) - 1) = pattern }
    IN IF at = {} THEN 0 ELSE CHOOSE i \in at : \A j \in at : i <= j

\* String.prototype.replace with a string pattern: the first occurrence only
Replace(s, pattern, by) ==
    LET i == IndexOf(s, pattern)
    IN IF i = 0 THEN s
       ELSE SubSeq(s, 1, i - 1) \o by \o SubSeq(s, i + Len(pattern), Len(s))

\* a JavaScript value of a JSON body: undefined/null, a string or a number
Undefined == [t |-> "undefined", v |-> <<>>]
Str(s) == [t |-> "string", v |-> s]
Num(digits) == [t |-> "number", v |-> digits]

\* JavaScript truthiness: undefined, "" and 0 are falsy
Truthy(x) ==
    \/ x.t = "string" /\ x.v # <<>>
    \/ x.t = "number" /\ x.v # <<"0">>

\* a || b
OrElse(a, b) == IF Truthy(a) THEN a ELSE b

\* item.decimals when the field is absent
NoDecimals == -1

(***************************************************************************)
(* JavaScript numbers: integers beyond 32 bits are sequences of limbs in   *)
(* base 10000, least significant first, zero being <<>>.                   *)
(***************************************************************************)
\* amount when the caller passes NaN
NaN == -1

RECURSIVE BigOfNat(_)
BigOfNat(n) ==
    IF n = 0 THEN <<>> ELSE <<n % 10000>> \o BigOfNat(n \div 10000)

\* a * k for a natural k of at most 10000
RECURSIVE BigTimesCarry(_, _, _)
BigTimesCarry(a, k, carry) ==
    IF a = <<>> THEN BigOfNat(carry)
    ELSE LET p == Head(a) * k + carry
         IN <<p % 10000>> \o BigTimesCarry(Tail(a), k, p \div 10000)

BigTimes(a, k) == IF k = 0 THEN <<>> ELSE BigTimesCarry(a, k, 0)

\* 10^d
RECURSIVE BigTenTo(_)
BigTenTo(d) == IF d < 4 THEN <<10 ^ d>> ELSE <<0>> \o BigTenTo(d - 4)

\* a without its leading zero limbs
BigTrim(a) ==
    LET nonzero == { i \in 1..Len(a) : a[i] # 0 }
    IN IF nonzero = {} THEN <<>>
       ELSE SubSeq(a, 1, CHOOSE i \in nonzero : \A j \in nonzero : j <= i)

\* quotient (untrimmed) and remainder of a by a natural m of at most 10000
RECURSIVE BigDivRem(_, _)
BigDivRem(a, m) ==
    IF a = <<>> THEN [q |-> <<>>, r |-> 0]
    ELSE LET upper == BigDivRem(Tail(a), m)
             cur == upper.r * 10000 + Head(a)
         IN [q |-> <<cur \div m>> \o upper.q, r |-> cur % m]

BigDiv(a, m) == BigTrim(BigDivRem(a, m).q)
BigMod(a, m) == BigDivRem(a, m).r

BigOdd(a) == a # <<>> /\ a[1] % 2 = 1

RECURSIVE BigInc(_)
BigInc(a) ==
    IF a = <<>> THEN <<1>>
    ELSE IF Head(a) < 9999 THEN <<Head(a) + 1>> \o Tail(a)
    ELSE <<0>> \o BigInc(Tail(a))

BigLess(a, b) ==
    IF Len(a) # Len(b) THEN Len(a) < Len(b)
    ELSE \E i \in 1..Len(a) :
             /\ a[i] < b[i]
             /\ \A j \in (i + 1)..Len(a) : a[j] = b[j]

\* a * 2^e, thirteen bits at a time
RECURSIVE BigTimesTwoTo(_, _)
BigTimesTwoTo(a, e) ==
    IF e <= 13 THEN BigTimes(a, 2 ^ e)
    ELSE BigTimesTwoTo(BigTimes(a, 2 ^ 13), e - 13)

\* 2^53 = 9007199254740992: below it every integer is a double
TwoTo53 == <<992, 5474, 1992, 9007>>

\* the double nearest to the integer n * 2^e, ties to even, sticky telling
\* that a non-zero bit has been dropped: n loses thirteen bits at a time while
\* it has more than 67, then the j bits it has above 53
RECURSIVE RoundToDouble(_, _, _)
RoundToDouble(n, e, sticky) ==
    IF ~BigLess(n, BigTimes(TwoTo53, 2 ^ 14))
    THEN RoundToDouble(BigDiv(n, 2 ^ 13), e + 13,
                       sticky \/ BigMod(n, 2 ^ 13) # 0)
    ELSE LET j == CHOOSE k \in 0..14 :
                    /\ BigLess(n, BigTimes(TwoTo53, 2 ^ k))
                    /\ \A l \in 0..(k - 1) :
                           ~BigLess(n, BigTimes(TwoTo53, 2 ^ l))
         IN IF j = 0 THEN BigTimesTwoTo(n, e)
            ELSE LET withGuard == BigDiv(n, 2 ^ (j - 1))
                     lost == sticky \/ BigMod(n, 2 ^ (j - 1)) # 0
                     kept == BigDiv(withGuard, 2)
                     up == BigOdd(withGuard) /\ (lost \/ BigOdd(kept))
                 IN BigTimesTwoTo(IF up THEN BigInc(kept) ELSE kept, e + j)

\* the IEEE-754 double an integer-valued arithmetic result is rounded to
ToDouble(n) == RoundToDouble(n, 0, FALSE)

Digits == <<"0","1","2","3","4","5","6","7","8","9">>

\* the four decimal digits of a limb
LimbDigits(l) ==
    <<Digits[(l \div 1000) + 1], Digits[((l \div 100) % 10) + 1],
      Digits[((l \div 10) % 10) + 1], Digits[(l % 10) + 1]>>

\* the digits of a, most significant first, the first limb zero-padded
RECURSIVE BigDigits(_)
BigDigits(a) ==
    IF a = <<>> THEN <<>> ELSE BigDigits(Tail(a)) \o LimbDigits(Head(a))

\* BigInt.prototype.toString
BigToString(a) ==
    IF a = <<>> THEN <<"0">>
    ELSE LET digits == BigDigits(a)
             first == CHOOSE i \in 1..Len(digits) :
                          /\ digits[i] # "0"
                          /\ \A j \in 1..(i - 1) : digits[j] = "0"
         IN SubSeq(digits, first, Len(digits))

\* BigInt(Math.round(amount * 10 ** decimals)).toString() for a whole amount
ToAtomic(amount, decimals) ==
    BigToString(ToDouble(BigTimes(ToDouble(BigTenTo(decimals)), amount)))

(***************************************************************************)
(* The catalog endpoint's raw entries (GET /v0/tokens).                    *)
(***************************************************************************)
sNEAR == <<"N","E","A","R">>
sWNEAR == <<"W","N","E","A","R">>

RawItem(assetId, symbol, name, decimals, chain) ==
    [assetId |-> assetId, symbol |-> symbol, name |-> name,
     decimals |-> decimals, contractAddress |-> Undefined,
     blockchain |-> chain]

RawItems ==
    { RawItem(Str(<<"a","1">>), Str(<<"w","N","E","A","R">>),
              Str(<<"W","r","a","p">>), 24, Str(<<"n","e","a","r">>)),
      RawItem(Str(<<"a","2">>), Str(<<"n","e","a","r">>),
              Undefined, NoDecimals, Undefined),
      RawItem(Str(<<"a","3">>), Str(<<"u","s","d","c">>),
              Undefined, 6, Str(<<"e","t","h">>)),
      RawItem(Str(<<"a","4">>), Str(<<"U","S","D","C">>),
              Str(<<"U","S","D">>), 0, Undefined),
      RawItem(Undefined, Str(<<"U","S","D","T">>),
              Undefined, 6, Undefined),
      RawItem(Str(<<"a","6">>), Undefined, Undefined, 6, Undefined),
      RawItem(Str(<<>>), Str(<<"E","T","H">>), Undefined, 18, Undefined),
      RawItem(Str(<<"a","8">>), Num(<<"7">>), Undefined, 18, Undefined) }

RECURSIVE SeqsUpTo(_, _)
SeqsUpTo(S, n) ==
    IF n = 0 THEN { <<>> }
    ELSE LET shorter == SeqsUpTo(S, n - 1)
         IN shorter \cup { Append(s, x) : s \in shorter, x \in S }

\* what a fetch of the catalog endpoint settles with
Response(kind, body) == [kind |-> kind, body |-> body]

Failures ==
    { Response("transport", <<>>),     \* fetch rejects
      Response("status", <<>>),        \* !response.ok
      Response("object", <<>>) }       \* a JSON body that is no array

\* every answer of at most MaxItems entries
Responses ==
    Failures \cup { Response("array", d) : d \in SeqsUpTo(RawItems, MaxItems) }

\* the answers the concurrent callers receive: the failures, an array with no
\* usable entry, and two different good arrays
FewResponses ==
    Failures \cup
    { Response("array", <<RawItem(Undefined, Str(<<"U","S","D","T">>),
                                  Undefined, 6, Undefined)>>),
      Response("array", <<RawItem(Str(<<"a","1">>),
                                  Str(<<"w","N","E","A","R">>),
                                  Str(<<"W","r","a","p">>), 24,
                                  Str(<<"n","e","a","r">>))>>),
      Response("array", <<RawItem(Str(<<"a","3">>), Str(<<"u","s","d","c">>),
                                  Undefined, 6, Str(<<"e","t","h">>)),
                          RawItem(Str(<<"a","4">>), Str(<<"U","S","D","C">>),
                                  Str(<<"U","S","D">>), 0, Undefined)>>) }

(***************************************************************************)
(* knowledge-base.ts: the catalog cache.                                   *)
(***************************************************************************)
CACHE_DURATION_MS == 6 * 60 * 60 * 1000

Callers == {1, 2}

NullCache == [isNull |-> TRUE, v |-> <<>>]
NullTime == [isNull |-> TRUE, v |-> 0]
Some(x) == [isNull |-> FALSE, v |-> x]

NoReturn == [kind |-> "none", tokens |-> <<>>, message |-> <<>>]
Resolved(tokens) == [kind |-> "tokens", tokens |-> tokens, message |-> <<>>]
Rejected(msg) == [kind |-> "error", tokens |-> <<>>, message |-> msg]
\* line 86-88: the error getAvailableTokensFromApi throws
CantGetTokens(msg) == <<"Can't get supported tokens: ", msg>>
NoResponse == Response("none", <<>>)
NoHit == [valid |-> FALSE, entries |-> <<>>, fetchedAt |-> 0, replaced |-> FALSE]

VARIABLES
    tokenCache,      \* knowledge-base.ts:15
    cacheTimestamp,  \* knowledge-base.ts:16
    now,             \* Date.now()
    ticks,           \* how often the clock has advanced
    pc,              \* per caller: "idle", "fetching", "done"
    fetched,         \* per caller: this call issued a request to the endpoint
    response,        \* per caller: what its fetch settled with
    ret,             \* per caller: what the call resolved or rejected with
    seenTimestamp,   \* per caller: cacheTimestamp as the call read it (line 21)
    lastHit          \* the latest answer given from the cache (line 23), the
                     \* fetchedAt of the snapshot it came from, and whether
                     \* the cache has been replaced since

catalogVars == <<tokenCache, cacheTimestamp, now, ticks, pc, fetched, response,
                 ret, seenTimestamp, lastHit>>


\* mutant of Accepted: the symbol is not looked at
AcceptedAssetOnly(item) == Truthy(item.assetId)

\* lines 44-58: the entry passes the filter
Accepted(item) == Truthy(item.assetId) /\ Truthy(item.symbol)

\* mutant of FoldSymbol: the comparison is case-sensitive
FoldSymbolExact(symbol) ==
    IF symbol = sWNEAR \/ symbol = sNEAR THEN sNEAR ELSE symbol

\* lines 45-48: WNEAR and NEAR, in any case, become "NEAR"
FoldSymbol(symbol) ==
    IF toUpperCase(symbol) = sWNEAR \/ toUpperCase(symbol) = sNEAR
    THEN sNEAR
    ELSE symbol

\* lines 50-57
MakeToken(item) ==
    LET symbol == FoldSymbol(item.symbol.v)
    IN [symbol |-> symbol,
        name |-> OrElse(item.name, Str(symbol)).v,
        decimals |-> IF item.decimals = NoDecimals THEN 18 ELSE item.decimals,
        defuseAssetId |-> item.assetId,
        contractAddress |-> OrElse(item.contractAddress, Str(<<>>)).v,
        blockchain |-> OrElse(item.blockchain, Str(<<"n","e","a","r">>)).v]

\* line 46 on a symbol that is no string: symbol.toUpperCase is not a function
LoopThrows(data) ==
    \E i \in 1..Len(data) : Accepted(data[i]) /\ data[i].symbol.t # "string"

\* lines 42-59
RECURSIVE Tokens(_)
Tokens(data) ==
    IF data = <<>> THEN <<>>
    ELSE IF Accepted(Head(data))
         THEN <<MakeToken(Head(data))>> \o Tokens(Tail(data))
         ELSE Tokens(Tail(data))

\* lines 64-70, from the state (seen, uniqueTokens) over the rest of tokens
RECURSIVE Dedup(_, _, _)
Dedup(tokens, seen, uniqueTokens) ==
    IF tokens = <<>> THEN uniqueTokens
    ELSE LET key == toUpperCase(Head(tokens).symbol)
         IN IF key \notin seen
            THEN Dedup(Tail(tokens), seen \cup {key},
                       Append(uniqueTokens, Head(tokens)))
            ELSE Dedup(Tail(tokens), seen, uniqueTokens)

\* mutant of UniqueTokens: a later duplicate replaces the earlier one
RECURSIVE DedupLastWins(_, _)
DedupLastWins(tokens, uniqueTokens) ==
    IF tokens = <<>> THEN uniqueTokens
    ELSE LET key == toUpperCase(Head(tokens).symbol)
             others == SelectSeq(uniqueTokens,
                                 LAMBDA t : toUpperCase(t.symbol) # key)
         IN DedupLastWins(Tail(tokens), Append(others, Head(tokens)))

UniqueTokensLastWins(data) == DedupLastWins(Tokens(data), <<>>)

\* lines 61-70
UniqueTokens(data) == Dedup(Tokens(data), {}, <<>>)

\* lines 32-74: the error thrown inside the try block ("" when none is)
TryError(resp) ==
    CASE resp.kind = "transport" -> "fetch failed"
      [] resp.kind = "status" -> "API returned 500"
      [] resp.kind = "object" -> "Unexpected API response format"
      [] LoopThrows(resp.body) -> "symbol.toUpperCase is not a function"
      [] UniqueTokens(resp.body) = <<>> -> "API returned empty list"
      [] OTHER -> ""

\* mutant of CacheFresh: the duration is taken in seconds
CacheFreshSeconds ==
    /\ ~tokenCache.isNull
    /\ ~cacheTimestamp.isNull /\ cacheTimestamp.v # 0
    /\ now - cacheTimestamp.v < 6 * 60 * 60

\* lines 21-25: the cache answers the call
CacheFresh ==
    /\ ~tokenCache.isNull
    /\ ~cacheTimestamp.isNull /\ cacheTimestamp.v # 0
    /\ now - cacheTimestamp.v < CACHE_DURATION_MS

\* mutant of UpdateCache: the timestamp is not written
UpdateCacheEntriesOnly(uniqueTokens) ==
    /\ tokenCache' = Some(uniqueTokens)
    /\ cacheTimestamp' = cacheTimestamp
    /\ lastHit' = [lastHit EXCEPT !.replaced = lastHit.valid]

\* mutant of UpdateCache: the new entries are added to the old ones
UpdateCacheMerge(uniqueTokens) ==
    /\ tokenCache' = Some(tokenCache.v \o uniqueTokens)
    /\ cacheTimestamp' = Some(now)
    /\ lastHit' = [lastHit EXCEPT !.replaced = lastHit.valid]

\* mutant of UpdateCache: the entries of the cache are kept behind the new ones
UpdateCacheKeepOld(uniqueTokens) ==
    /\ tokenCache' = Some(uniqueTokens \o tokenCache.v)
    /\ cacheTimestamp' = Some(now)
    /\ lastHit' = [lastHit EXCEPT !.replaced = lastHit.valid]

\* lines 77-78
UpdateCache(uniqueTokens) ==
    /\ tokenCache' = Some(uniqueTokens)
    /\ cacheTimestamp' = Some(now)
    /\ lastHit' = [lastHit EXCEPT !.replaced = lastHit.valid]

\* lines 19-30: the call, up to its first await
GetTokensCall(c) ==
    /\ pc[c] = "idle"
    /\ seenTimestamp' = [seenTimestamp EXCEPT ![c] = cacheTimestamp]
    /\ IF CacheFresh
       THEN /\ pc' = [pc EXCEPT ![c] = "done"]
            /\ ret' = [ret EXCEPT ![c] = Resolved(tokenCache.v)]
            /\ lastHit' = [valid |-> TRUE, entries |-> tokenCache.v,
                            fetchedAt |-> cacheTimestamp.v, replaced |-> FALSE]
            /\ UNCHANGED fetched
       ELSE /\ pc' = [pc EXCEPT ![c] = "fetching"]
            /\ fetched' = [fetched EXCEPT ![c] = TRUE]
            /\ UNCHANGED <<ret, lastHit>>
    /\ UNCHANGED <<tokenCache, cacheTimestamp, now, ticks, response>>

\* mutant of CatchFallback: the error is always thrown
CatchFallbackThrows(c, msg) ==
    /\ ret' = [ret EXCEPT ![c] = Rejected(CantGetTokens(msg))]
    /\ UNCHANGED <<tokenCache, cacheTimestamp, lastHit>>

\* mutant of CatchFallback: without a cache an empty list is returned
CatchFallbackEmpty(c, msg) ==
    /\ ret' = [ret EXCEPT ![c] =
                 IF ~tokenCache.isNull
                 THEN Resolved(tokenCache.v)
                 ELSE Resolved(<<>>)]
    /\ UNCHANGED <<tokenCache, cacheTimestamp, lastHit>>

\* mutant of CatchFallback: a failed refresh drops the cache
CatchFallbackDropsCache(c, msg) ==
    /\ ret' = [ret EXCEPT ![c] =
                 IF ~tokenCache.isNull
                 THEN Resolved(tokenCache.v)
                 ELSE Rejected(CantGetTokens(msg))]
    /\ tokenCache' = NullCache
    /\ cacheTimestamp' = NullTime
    /\ UNCHANGED lastHit

\* lines 81-89
CatchFallback(c, msg) ==
    /\ ret' = [ret EXCEPT ![c] =
                 IF ~tokenCache.isNull
                 THEN Resolved(tokenCache.v)
                 ELSE Rejected(CantGetTokens(msg))]
    /\ UNCHANGED <<tokenCache, cacheTimestamp, lastHit>>

\* lines 32-89: the fetch settles and the call runs to its end
FetchSettles(c, resp) ==
    /\ pc[c] = "fetching"
    /\ pc' = [pc EXCEPT ![c] = "done"]
    /\ response' = [response EXCEPT ![c] = resp]
    /\ IF TryError(resp) = ""
       THEN /\ UpdateCache(UniqueTokens(resp.body))
            /\ ret' = [ret EXCEPT ![c] = Resolved(UniqueTokens(resp.body))]
       ELSE CatchFallback(c, TryError(resp))
    /\ UNCHANGED <<now, ticks, fetched, seenTimestamp>>

\* the caller takes the result; it may call again
Return(c) ==
    /\ pc[c] = "done"
    /\ pc' = [pc EXCEPT ![c] = "idle"]
    /\ fetched' = [fetched EXCEPT ![c] = FALSE]
    /\ response' = [response EXCEPT ![c] = NoResponse]
    /\ ret' = [ret EXCEPT ![c] = NoReturn]
    /\ seenTimestamp' = [seenTimestamp EXCEPT ![c] = NullTime]
    /\ UNCHANGED <<tokenCache, cacheTimestamp, now, ticks, lastHit>>

\* the clock advances
Tick(d) ==
    /\ ticks < MaxTicks
    /\ now' = now + d
    /\ ticks' = ticks + 1
    /\ UNCHANGED <<tokenCache, cacheTimestamp, pc, fetched, response, ret,
                   seenTimestamp, lastHit>>

TickSteps == {1, CACHE_DURATION_MS - 1}

CatalogInit ==
    /\ tokenCache = NullCache
    /\ cacheTimestamp = NullTime
    /\ now = StartTime
    /\ ticks = 0
    /\ pc = [c \in Callers |-> "idle"]
    /\ fetched = [c \in Callers |-> FALSE]
    /\ response = [c \in Callers |-> NoResponse]
    /\ ret = [c \in Callers |-> NoReturn]
    /\ seenTimestamp = [c \in Callers |-> NullTime]
    /\ lastHit = NoHit

(***************************************************************************)
(* swap.ts: getSwapQuote.                                                  *)
(***************************************************************************)
\* constants.ts TOKEN_MAP: the routing asset id of a symbol (<<>> when absent)
TOKEN_MAP(symbol) ==
    CASE symbol = sNEAR ->
        <<"n","e","p","1","4","1",":","w","r","a","p",".","n","e","a","r">>
      [] symbol = <<"E","T","H">> ->
        <<"n","e","p","1","4","1",":","e","t","h",".","b","r","i","d","g","e",
        ".","n","e","a","r">>
      [] symbol = <<"U","S","D","C">> ->
        <<"n","e","p","1","4","1",":","1","7","2","0","8","6","2","8","f","8",
        "4","f","5","d","6","a","d","3","3","f","0","d","a","3","b","b","b",
        "e","b","2","7","f","f","c","b","3","9","8","e","a","c","5","0","1",
        "a","3","1","b","d","6","a","d","2","0","1","1","e","3","6","1","3",
        "3","a","1">>
      [] symbol = <<"U","S","D","T">> ->
        <<"n","e","p","1","4","1",":","u","s","d","t",".","t","e","t","h","e",
        "r","-","t","o","k","e","n",".","n","e","a","r">>
      [] symbol = <<"W","B","T","C">> ->
        <<"n","e","p","1","4","1",":","m","i","n","t","e","r",".","b","r","i",
        "d","g","e",".","n","e","a","r">>
      [] symbol = <<"A","U","R","O","R","A">> ->
        <<"n","e","p","1","4","1",":","a","a","a","a","a","a","2","0","d","9",
        "e","0","e","2","4","6","1","6","9","7","7","8","2","e","f","1","1",
        "6","7","5","f","6","6","8","2","0","7","9","6","1",".","f","a","c",
        "t","o","r","y",".","b","r","i","d","g","e",".","n","e","a","r">>
      [] OTHER -> <<>>

\* constants.ts DECIMALS_MAP (NoDecimals when absent)
DECIMALS_MAP(symbol) ==
    CASE symbol = sNEAR -> 24
      [] symbol = <<"E","T","H">> -> 18
      [] symbol = <<"U","S","D","C">> -> 6
      [] symbol = <<"U","S","D","T">> -> 6
      [] symbol = <<"W","B","T","C">> -> 8
      [] symbol = <<"A","U","R","O","R","A">> -> 18
      [] OTHER -> NoDecimals

\* the symbols, recipients and chain hints getSwapQuote is called with
TokenArgs == { <<"n","e","a","r">>, <<"U","S","D","C">>, <<"d","o","g","e">> }
RecipientArgs == { "", "alice.near" }

\* what a POST to the quote endpoint settles with: the fetch rejects, or a
\* response arrives whose status is 2xx or not and whose body is one of
\*   "unparsable"  response.json() rejects, or parses to null
\*   "message"     JSON with a message field
\*   "nodeposit"   JSON with neither message nor depositAddress
\*   "badamount"   JSON with a depositAddress and an amountOut BigInt rejects
\*   "quote"       JSON with a depositAddress and an integer amountOut
QuoteBodies == {"unparsable", "message", "nodeposit", "badamount", "quote"}
QuoteResponse(net, ok, body) == [net |-> net, ok |-> ok, body |-> body]
NoQuoteResponse == QuoteResponse("none", FALSE, "none")
QuoteResponses ==
    { QuoteResponse("rejected", FALSE, "none") }
    \cup { QuoteResponse("arrived", ok, body) : ok \in BOOLEAN, body \in QuoteBodies }

NoQuote == [token_in |-> <<>>, token_out |-> <<>>, deposit_address |-> "",
            defuse_asset_in |-> <<>>, defuse_asset_out |-> <<>>]
NoResult == [kind |-> "none", quote |-> NoQuote, error |-> <<>>]
QuoteError(msg) == [kind |-> "error", quote |-> NoQuote, error |-> msg]
QuoteOk(q) == [kind |-> "quote", quote |-> q, error |-> <<>>]
NoArgs == [tokenIn |-> <<>>, tokenOut |-> <<>>, recipientId |-> ""]

VARIABLES
    qpc,            \* "idle", "awaiting" (the fetch), "sleeping" (the backoff), "done"
    qargs,          \* the arguments of the call
    attempt,        \* swap.ts:107
    lastError,      \* swap.ts:106
    requests,       \* POSTs this call has sent to the quote endpoint
    delays,         \* the setTimeout delays this call has waited, in order
    quoteResponse,  \* what the latest POST settled with
    quoteResult     \* the SwapQuoteResult the call resolved with

quoteVars == <<qpc, qargs, attempt, lastError, requests, delays,
               quoteResponse, quoteResult>>

\* mutant of AttemptError: a message field is thrown inside the try block
AttemptErrorMessageThrown(resp) ==
    CASE resp.net = "rejected" -> "fetch failed"
      [] ~resp.ok -> "HTTP 500"
      [] resp.body = "unparsable" -> "Unexpected token < in JSON"
      [] resp.body = "message" -> "data.message"
      [] resp.body = "badamount" -> "Cannot convert undefined to a BigInt"
      [] OTHER -> ""

\* mutant of AttemptError: a missing deposit address is thrown inside the try
\* block
AttemptErrorNoDepositThrown(resp) ==
    CASE resp.net = "rejected" -> "fetch failed"
      [] ~resp.ok -> "HTTP 500"
      [] resp.body = "unparsable" -> "Unexpected token < in JSON"
      [] resp.body = "nodeposit" -> "No deposit address found in quote"
      [] resp.body = "badamount" -> "Cannot convert undefined to a BigInt"
      [] OTHER -> ""

\* mutant of AttemptError: every 2xx body that is not a quote is thrown
AttemptErrorAllThrown(resp) ==
    CASE resp.net = "rejected" -> "fetch failed"
      [] ~resp.ok -> "HTTP 500"
      [] resp.body = "quote" -> ""
      [] OTHER -> "no quote"

\* the message of the error the try block of lines 108-150 throws ("" if none)
AttemptError(resp) ==
    CASE resp.net = "rejected" -> "fetch failed"
      [] ~resp.ok -> "HTTP 500"
      [] resp.body = "unparsable" -> "Unexpected token < in JSON"
      [] resp.body = "badamount" -> "Cannot convert undefined to a BigInt"
      [] OTHER -> ""

\* mutant of BackoffDelay: the delay is not capped
BackoffDelayUncapped(n) == 1000 * 2 ^ (n - 1)

\* line 155
BackoffDelay(n) ==
    IF 1000 * 2 ^ (n - 1) < 10000 THEN 1000 * 2 ^ (n - 1) ELSE 10000

\* mutant of NextLastError: only the first failure is kept
NextLastErrorFirst(resp) ==
    IF lastError = "" THEN AttemptError(resp) ELSE lastError

\* line 152
NextLastError(resp) == AttemptError(resp)

\* lines 109-116: the POST is sent
SendQuoteRequest ==
    /\ qpc' = "awaiting"
    /\ requests' = requests + 1

\* mutant of ArgumentError: the recipient is not checked
ArgumentErrorNoRecipient(tIn, tOut, recipientId) ==
    IF TOKEN_MAP(tIn) = <<>> \/ TOKEN_MAP(tOut) = <<>>
    THEN <<"Token pair ", tIn, "->", tOut, " not supported">>
    ELSE <<>>

\* lines 76-82: the error the arguments are refused with (<<>> if none)
ArgumentError(tIn, tOut, recipientId) ==
    IF TOKEN_MAP(tIn) = <<>> \/ TOKEN_MAP(tOut) = <<>>
    THEN <<"Token pair ", tIn, "->", tOut, " not supported">>
    ELSE IF recipientId = ""
    THEN <<"Wallet must be connected to fetch a quote">>
    ELSE <<>>

\* lines 70-116: the call, up to its first await
GetSwapQuoteCall(tokenIn, tokenOut, recipientId) ==
    /\ qpc = "idle"
    /\ qargs' = [tokenIn |-> tokenIn, tokenOut |-> tokenOut,
                 recipientId |-> recipientId]
    /\ LET tIn == toUpperCase(tokenIn)
           tOut == toUpperCase(tokenOut)
       IN IF ArgumentError(tIn, tOut, recipientId) # <<>>
          THEN /\ qpc' = "done"
               /\ quoteResult' = QuoteError(ArgumentError(tIn, tOut, recipientId))
               /\ UNCHANGED <<attempt, requests>>
          ELSE /\ attempt' = 1
               /\ SendQuoteRequest
               /\ UNCHANGED quoteResult
    /\ UNCHANGED <<lastError, delays, quoteResponse>>

\* lines 118-163: the POST settles; the call ends or starts its backoff
QuoteFetchSettles(resp) ==
    /\ qpc = "awaiting"
    /\ quoteResponse' = resp
    /\ IF AttemptError(resp) # ""
       THEN \* lines 151-158, and 161-163 when the loop ends
            /\ lastError' = NextLastError(resp)
            /\ IF attempt < 8
               THEN /\ qpc' = "sleeping"
                    /\ delays' = Append(delays, BackoffDelay(attempt))
                    /\ UNCHANGED quoteResult
               ELSE /\ qpc' = "done"
                    /\ quoteResult' =
                          QuoteError(<<"Unable to fetch quote after 8 attempts: ",
                                       lastError'>>)
                    /\ UNCHANGED delays
       ELSE \* lines 124-150
            /\ qpc' = "done"
            /\ quoteResult' =
                  IF resp.body = "message"
                  THEN QuoteError(<<"data.message">>)
                  ELSE IF resp.body = "nodeposit"
                  THEN QuoteError(<<"No deposit address found in quote">>)
                  ELSE QuoteOk([token_in |-> toUpperCase(qargs.tokenIn),
                                token_out |-> toUpperCase(qargs.tokenOut),
                                deposit_address |-> "quote.depositAddress",
                                defuse_asset_in |->
                                    TOKEN_MAP(toUpperCase(qargs.tokenIn)),
                                defuse_asset_out |->
                                    TOKEN_MAP(toUpperCase(qargs.tokenOut))])
            /\ UNCHANGED <<lastError, delays>>
    /\ UNCHANGED <<qargs, attempt, requests>>

\* lines 107-116: the timer fires, attempt++ and the next POST is sent
BackoffElapses ==
    /\ qpc = "sleeping"
    /\ attempt' = attempt + 1
    /\ IF attempt' <= 8
       THEN /\ SendQuoteRequest
            /\ UNCHANGED quoteResult
       ELSE /\ qpc' = "done"
            /\ quoteResult' =
                  QuoteError(<<"Unable to fetch quote after 8 attempts: ",
                               lastError>>)
            /\ UNCHANGED requests
    /\ UNCHANGED <<qargs, lastError, delays, quoteResponse>>

\* the caller takes the result; the next call starts afresh
QuoteReturn ==
    /\ qpc = "done"
    /\ qpc' = "idle"
    /\ qargs' = NoArgs
    /\ attempt' = 0
    /\ lastError' = ""
    /\ requests' = 0
    /\ delays' = <<>>
    /\ quoteResponse' = NoQuoteResponse
    /\ quoteResult' = NoResult

QuoteInit ==
    /\ qpc = "idle"
    /\ qargs = NoArgs
    /\ attempt = 0
    /\ lastError = ""
    /\ requests = 0
    /\ delays = <<>>
    /\ quoteResponse = NoQuoteResponse
    /\ quoteResult = NoResult

(***************************************************************************)
(* swap.ts: isCrossChainSwap.                                              *)
(***************************************************************************)
sNear == <<"n","e","a","r">>
sAurora == <<"a","u","r","o","r","a">>

\* the symbols isCrossChainSwap is called with
CrossArgs ==
    { sNear, <<"U","S","D","C">>, sAurora, <<"u","s","d","t">>,
      <<"d","o","g","e">> }

\* the answers of the catalog endpoint while isCrossChainSwap is the caller
CrossResponses ==
    { Response("transport", <<>>),
      Response("array",
               <<RawItem(Str(<<"a","1">>), Str(<<"w","N","E","A","R">>),
                         Undefined, 24, Str(<<"N","e","a","r">>)),
                 RawItem(Str(<<"a","3">>), Str(<<"u","s","d","c">>),
                         Undefined, 6, Str(<<"e","t","h">>)),
                 RawItem(Str(<<"a","5">>), Str(<<"A","U","R","O","R","A">>),
                         Undefined, 18, Str(sAurora)),
                 RawItem(Str(<<"a","7">>), Str(<<"U","S","D","T">>),
                         Undefined, 6, Undefined)>>),
      Response("array",
               <<RawItem(Str(<<"a","3">>), Str(<<"U","S","D","C">>),
                         Undefined, 6, Str(<<"E","T","H">>)),
                 RawItem(Str(<<"a","7">>), Str(<<"u","s","d","t">>),
                         Undefined, 6, Str(<<"e","t","h">>))>>) }

\* knowledge-base.ts getTokenBySymbol: the position of the first token whose
\* symbol matches in upper case (0 for undefined)
getTokenBySymbol(symbol, tokens) ==
    LET upper == toUpperCase(symbol)
        found == { i \in 1..Len(tokens) : toUpperCase(tokens[i].symbol) = upper }
    IN IF found = {} THEN 0 ELSE CHOOSE i \in found : \A j \in found : i <= j

\* what a call of isCrossChainSwap ends with
NoOutcome == [kind |-> "none", value |-> FALSE]
Returns(b) == [kind |-> "value", value |-> b]
Raises == [kind |-> "raised", value |-> FALSE]

\* lines 48-49: (token.blockchain || "near").toLowerCase()
ChainOf(token) ==
    toLowerCase(IF token.blockchain # <<>> THEN token.blockchain ELSE sNear)

\* mutant of FoldAurora: no label is folded
FoldAuroraNone(chain) == chain

\* lines 51-52
FoldAurora(chain) == IF chain = sAurora THEN sNear ELSE chain

\* lines 42-54: the try block, given what the await of line 42 settled with
CrossChainTry(tokenIn, tokenOut, awaited) ==
    IF awaited.kind = "error" THEN Raises
    ELSE LET tokens == awaited.tokens
             tokenInData == getTokenBySymbol(tokenIn, tokens)
             tokenOutData == getTokenBySymbol(tokenOut, tokens)
         IN IF tokenInData = 0 \/ tokenOutData = 0 THEN Returns(FALSE)
            ELSE Returns(FoldAurora(ChainOf(tokens[tokenInData]))
                           # FoldAurora(ChainOf(tokens[tokenOutData])))

\* mutant of CrossChainResult: there is no catch clause
CrossChainResultNoCatch(tokenIn, tokenOut, awaited) ==
    CrossChainTry(tokenIn, tokenOut, awaited)

\* lines 41-57: the try block and its catch clause
CrossChainResult(tokenIn, tokenOut, awaited) ==
    IF CrossChainTry(tokenIn, tokenOut, awaited) = Raises
    THEN Returns(FALSE)
    ELSE CrossChainTry(tokenIn, tokenOut, awaited)

VARIABLES
    xpc,        \* "idle", "awaiting" (line 42), "returned"
    xargs,      \* the arguments of the call
    xawaited,   \* what getAvailableTokensFromApi settled with
    xresult     \* what the call ended with

crossVars == <<xpc, xargs, xawaited, xresult>>

NoCrossArgs == [tokenIn |-> <<>>, tokenOut |-> <<>>]

\* lines 40-42: the call, up to its await of getAvailableTokensFromApi
IsCrossChainSwapCall(tokenIn, tokenOut) ==
    /\ xpc = "idle"
    /\ GetTokensCall(1)
    /\ xpc' = "awaiting"
    /\ xargs' = [tokenIn |-> tokenIn, tokenOut |-> tokenOut]
    /\ UNCHANGED <<xawaited, xresult>>

\* lines 42-57: getAvailableTokensFromApi has settled and the call runs to its
\* end
IsCrossChainSwapResumes ==
    /\ xpc = "awaiting"
    /\ Return(1)
    /\ xpc' = "returned"
    /\ xawaited' = ret[1]
    /\ xresult' = CrossChainResult(xargs.tokenIn, xargs.tokenOut, ret[1])
    /\ UNCHANGED xargs

\* the caller takes the result; the next call starts afresh
CrossChainReturn ==
    /\ xpc = "returned"
    /\ xpc' = "idle"
    /\ xargs' = NoCrossArgs
    /\ xawaited' = NoReturn
    /\ xresult' = NoOutcome

CrossInit ==
    /\ xpc = "idle"
    /\ xargs = NoCrossArgs
    /\ xawaited = NoReturn
    /\ xresult = NoOutcome

(***************************************************************************)
(* swap.ts: createNearIntentTransaction.                                   *)
(***************************************************************************)
sWrapNear ==
    <<"w","r","a","p",".","n","e","a","r">>
sIntentsNear ==
    <<"i","n","t","e","n","t","s",".","n","e","a","r">>
sSolverRelay ==
    <<"s","o","l","v","e","r","-","r","e","l","a","y",".","n","e","a","r">>
sNep141 ==
    <<"n","e","p","1","4","1",":">>
sDotNear ==
    <<".","n","e","a","r">>
sStorageDeposit ==
    <<"1","2","5","0","0","0","0","0","0","0","0","0","0","0","0","0","0","0","0","0","0","0">>
sOne == <<"1">>

\* the arguments createNearIntentTransaction is called with
TokenInArgs ==
    { sNear, sNEAR, <<"N","e","a","r">>, <<"w","N","E","A","R">>,
      <<"u","s","d","c">>, <<"U","S","D","C">>, <<"w","b","t","c">>,
      <<"d","o","g","e">> }
TokenOutArgs == { <<"U","S","D","C">>, <<"d","o","g","e">> }
AmountArgs == { 0, 1, 5, NaN }
MinAmountOutArgs == { 0, 4 }
DepositAddressArgs == { Undefined, Str(<<"d","e","p","o","t">>) }

\* TransactionAction and TransactionPayload (lines 25-38)
FunctionCall(methodName, args, gas, deposit) ==
    [type |-> "FunctionCall",
     params |-> [methodName |-> methodName, args |-> args, gas |-> gas,
                 deposit |-> deposit]]
TransactionPayload(receiverId, actions) ==
    [receiverId |-> receiverId, actions |-> actions]

\* what a call of createNearIntentTransaction ends with
NoBatch == [kind |-> "none", transactions |-> <<>>]
Batch(transactions) == [kind |-> "batch", transactions |-> transactions]
Thrown == [kind |-> "thrown", transactions |-> <<>>]

\* lines 201-217 and 229-241
FtTransferCall(receiver, amountInt) ==
    FunctionCall("ft_transfer_call",
                 [receiver_id |-> receiver, amount |-> amountInt, msg |-> <<>>],
                 "50000000000000", sOne)

\* mutant of NativeLeg: NEAR is wrapped before the storage registration
NativeLegWrapFirst(contractId, amountInt) ==
    TransactionPayload(sWrapNear,
        << FunctionCall("near_deposit", <<>>, "10000000000000", amountInt),
           FunctionCall("storage_deposit",
                        [account_id |-> contractId, registration_only |-> TRUE],
                        "30000000000000", sStorageDeposit),
           FtTransferCall(contractId, amountInt) >>)

\* lines 181-219
NativeLeg(contractId, amountInt) ==
    TransactionPayload(sWrapNear,
        << FunctionCall("storage_deposit",
                        [account_id |-> contractId, registration_only |-> TRUE],
                        "30000000000000", sStorageDeposit),
           FunctionCall("near_deposit", <<>>, "10000000000000", amountInt),
           FtTransferCall(contractId, amountInt) >>)

\* lines 222-224: a || b on strings
tInContract(tokenIn) ==
    LET stripped == Replace(TOKEN_MAP(toUpperCase(tokenIn)), sNep141, <<>>)
    IN IF stripped # <<>> THEN stripped ELSE toLowerCase(tokenIn) \o sDotNear

\* mutant of FungibleLeg: the transfer is addressed to the token contract
FungibleLegToSelf(tokenIn, contractId, amountInt) ==
    TransactionPayload(tInContract(tokenIn),
        << FtTransferCall(tInContract(tokenIn), amountInt) >>)

\* lines 226-243
FungibleLeg(tokenIn, contractId, amountInt) ==
    TransactionPayload(tInContract(tokenIn),
        << FtTransferCall(contractId, amountInt) >>)

\* lines 255-257
TokenId(tokenIn) ==
    IF TOKEN_MAP(toUpperCase(tokenIn)) # <<>>
    THEN TOKEN_MAP(toUpperCase(tokenIn))
    ELSE sNep141 \o toLowerCase(tokenIn) \o sDotNear

\* mutant of SettlementLeg: the transfer always goes to the default solver
SettlementLegDefault(tokenIn, contractId, amountInt, depositAddress) ==
    TransactionPayload(contractId,
        << FunctionCall("mt_transfer",
                        [token_id |-> TokenId(tokenIn),
                         receiver_id |-> sSolverRelay,
                         amount |-> amountInt, msg |-> <<>>],
                        "30000000000000", sOne) >>)

\* lines 247-267
SettlementLeg(tokenIn, contractId, amountInt, depositAddress) ==
    TransactionPayload(contractId,
        << FunctionCall("mt_transfer",
                        [token_id |-> TokenId(tokenIn),
                         receiver_id |-> depositAddress,
                         amount |-> amountInt, msg |-> <<>>],
                        "30000000000000", sOne) >>)

\* lines 176-177 and 166-172: decimalsIn, and the default of depositAddress
DecimalsIn(tokenIn) ==
    IF DECIMALS_MAP(toUpperCase(tokenIn)) = NoDecimals
    THEN 24
    ELSE DECIMALS_MAP(toUpperCase(tokenIn))
DepositAddress(given) == IF given = Undefined THEN sSolverRelay ELSE given.v

\* mutant of Transactions: the settlement leg carries the attached deposit
\* for its amount
TransactionsSettleDeposit(tokenIn, amountInt, depositAddress) ==
    << IF toLowerCase(tokenIn) = sNear
       THEN NativeLeg(sIntentsNear, amountInt)
       ELSE FungibleLeg(tokenIn, sIntentsNear, amountInt),
       SettlementLeg(tokenIn, sIntentsNear, sOne, depositAddress) >>

\* lines 166-270 once amountInt is known
Transactions(tokenIn, amountInt, depositAddress) ==
    << IF toLowerCase(tokenIn) = sNear
       THEN NativeLeg(sIntentsNear, amountInt)
       ELSE FungibleLeg(tokenIn, sIntentsNear, amountInt),
       SettlementLeg(tokenIn, sIntentsNear, amountInt, depositAddress) >>

\* mutant of createNearIntentTransaction: the settlement message names the
\* destination token
createNearIntentTransactionForOut(tokenIn, tokenOut, amount, minAmountOut, depositAddress) ==
    IF amount = NaN THEN Thrown
    ELSE LET built == Transactions(tokenIn,
                                   ToAtomic(amount, DecimalsIn(tokenIn)),
                                   DepositAddress(depositAddress))
         IN Batch([built EXCEPT ![2].actions[1].params.args.msg = tokenOut])

\* lines 166-270; BigInt(NaN) throws a RangeError at line 177
createNearIntentTransaction(tokenIn, tokenOut, amount, minAmountOut, depositAddress) ==
    IF amount = NaN THEN Thrown
    ELSE Batch(Transactions(tokenIn, ToAtomic(amount, DecimalsIn(tokenIn)),
                            DepositAddress(depositAddress)))

VARIABLES
    bpc,      \* "idle" or "built"
    bargs,    \* the arguments of the call
    bresult   \* what the call ended with

builderVars == <<bpc, bargs, bresult>>

NoBuilderArgs ==
    [tokenIn |-> <<>>, tokenOut |-> <<>>, amount |-> 0, minAmountOut |-> 0,
     depositAddress |-> Undefined]

\* a call of createNearIntentTransaction
BuildCall(tokenIn, tokenOut, amount, minAmountOut, depositAddress) ==
    /\ bpc = "idle"
    /\ bpc' = "built"
    /\ bargs' = [tokenIn |-> tokenIn, tokenOut |-> tokenOut, amount |-> amount,
                 minAmountOut |-> minAmountOut,
                 depositAddress |-> depositAddress]
    /\ bresult' = createNearIntentTransaction(tokenIn, tokenOut, amount,
                                              minAmountOut, depositAddress)

\* the caller takes the batch; the next call starts afresh
BuildReturn ==
    /\ bpc = "built"
    /\ bpc' = "idle"
    /\ bargs' = NoBuilderArgs
    /\ bresult' = NoBatch

BuilderInit ==
    /\ bpc = "idle"
    /\ bargs = NoBuilderArgs
    /\ bresult = NoBatch

\* lines 84-85 of getSwapQuote: the amount of the quote request
QuoteAmountAtomic(tIn, amount) ==
    ToAtomic(amount, IF DECIMALS_MAP(tIn) = NoDecimals THEN 24
                     ELSE DECIMALS_MAP(tIn))

(***************************************************************************)
(* Chain resolution of the wallet provider: walletTypeToChain.             *)
(* A chain code is a JavaScript number or string; a number is held by its  *)
(* String() form, so that String(type) and Number(type) are computed.      *)
(***************************************************************************)
\* n as decimal digits, n a natural number
RECURSIVE NatString(_)
NatString(n) ==
    IF n < 10 THEN <<Digits[n + 1]>>
    ELSE NatString(n \div 10) \o <<Digits[(n % 10) + 1]>>

\* String(n) of an integer n
IntString(n) == IF n < 0 THEN <<"-">> \o NatString(0 - n) ELSE NatString(n)

IsDigits(s) ==
    /\ s # <<>>
    /\ \A i \in 1..Len(s) : \E k \in 1..10 : Digits[k] = s[i]

RECURSIVE NatOfDigits(_)
NatOfDigits(s) ==
    IF s = <<>> THEN 0
    ELSE NatOfDigits(SubSeq(s, 1, Len(s) - 1)) * 10
           + ((CHOOSE k \in 1..10 : Digits[k] = s[Len(s)]) - 1)

NotANumber == [isNaN |-> TRUE, n |-> 0]
Finite(n) == [isNaN |-> FALSE, n |-> n]

\* line 32, Number(type): a number is itself; of the strings, "" is 0, a
\* decimal integer literal with an optional sign is its value, and a string
\* with any other character is NaN
ToNumber(type) ==
    LET s == type.v
    IN IF s = <<>> THEN Finite(0)
       ELSE IF IsDigits(s) THEN Finite(NatOfDigits(s))
       ELSE IF s[1] = "-" /\ IsDigits(Tail(s)) THEN Finite(0 - NatOfDigits(Tail(s)))
       ELSE IF s[1] = "+" /\ IsDigits(Tail(s)) THEN Finite(NatOfDigits(Tail(s)))
       ELSE NotANumber

\* String(type)
StringOf(type) == type.v

\* String.prototype.includes
Includes(s, pattern) == IndexOf(s, pattern) # 0

\* lines 35-93: the label of a numeric chain code (<<>> when it has none)
ChainTable(t) ==
    CASE t = 1010 -> <<"n","e","a","r">>
      [] t = 1001 -> <<"s","o","l","a","n","a">>
      [] t = 1111 -> <<"t","o","n">>
      [] t = 333 -> <<"t","r","o","n">>
      [] t = 1100 -> <<"s","t","e","l","l","a","r">>
      [] t = 4444118 -> <<"c","o","s","m","o","s">>
      [] t = 4444119 -> <<"g","o","n","k","a">>
      [] t = -6 -> <<"b","t","c">>
      [] t = -8 -> <<"d","o","g","e">>
      [] t = -7 -> <<"x","r","p">>
      [] t = -5 -> <<"z","c","a","s","h">>
      [] t = -9 -> <<"a","d","a">>
      [] t = -12 -> <<"c","a","r","d","a","n","o">>
      [] t = -10 -> <<"a","p","t","o","s">>
      [] t = -11 -> <<"s","u","i">>
      [] t = -4 -> <<"o","m","n","i">>
      [] t = -1030 -> <<"h","o","t","c","r","a","f","t">>
      [] t = -14 -> <<"l","t","c">>
      [] t = 1 -> <<"e","t","h">>
      [] t = 56 -> <<"b","n","b">>
      [] t = 97 -> <<"b","n","b">>
      [] t = 137 -> <<"p","o","l">>
      [] t = 42161 -> <<"a","r","b">>
      [] t = 1313161554 -> <<"a","u","r","o","r","a">>
      [] t = 43114 -> <<"a","v","a","x">>
      [] t = 59144 -> <<"l","i","n","e","a">>
      [] t = 196 -> <<"x","l","a","y","e","r">>
      [] t = 8453 -> <<"b","a","s","e">>
      [] t = 204 -> <<"o","p","b","n","b">>
      [] t = 10 -> <<"o","p">>
      [] t = 534352 -> <<"s","c","r","o","l","l">>
      [] t = 98881 -> <<"e","b","i">>
      [] t = 1329 -> <<"s","e","i">>
      [] t = 81457 -> <<"b","l","a","s","t">>
      [] t = 167000 -> <<"t","a","i","k","o">>
      [] t = 5000 -> <<"m","a","n","t","l","e">>
      [] t = 169 -> <<"m","a","n","t","a">>
      [] t = 2222 -> <<"k","a","v","a">>
      [] t = 324 -> <<"z","k","s","y","n","c">>
      [] t = 143 -> <<"m","o","n","a","d">>
      [] t = 1088 -> <<"m","e","t","i","s">>
      [] t = 100 -> <<"g","n","o","s","i","s">>
      [] t = 250 -> <<"f","a","n","t","o","m">>
      [] t = 25 -> <<"c","r","o","n","o","s">>
      [] t = 88888 -> <<"c","h","i","l","i","z">>
      [] t = 1284 -> <<"m","o","o","n","b","e","a","m">>
      [] t = 2020 -> <<"r","o","n","i","n">>
      [] t = 1135 -> <<"l","i","s","k">>
      [] t = 146 -> <<"s","o","n","i","c">>
      [] t = 7777777 -> <<"z","o","r","a">>
      [] t = 34443 -> <<"m","o","d","e">>
      [] t = 80094 -> <<"b","e","r","a">>
      [] t = 130 -> <<"u","n","i","c","h","a","i","n">>
      [] t = 1868 -> <<"s","o","n","e","i","u","m">>
      [] t = 57073 -> <<"i","n","k">>
      [] t = 2741 -> <<"a","p","e">>
      [] t = 36900 -> <<"a","d","i">>
      [] OTHER -> <<>>

\* the numeric codes of lines 35-93
ChainCodes ==
    { 1010, 1001, 1111, 333, 1100, 4444118, 4444119, -6, -8, -7, -5, -9,
      -12, -10, -11, -4, -1030, -14, 1, 56, 97, 137, 42161, 1313161554,
      43114, 59144, 196, 8453, 204, 10, 534352, 98881, 1329, 81457, 167000,
      5000, 169, 2222, 324, 143, 1088, 100, 250, 25, 88888, 1284, 2020,
      1135, 146, 7777777, 34443, 80094, 130, 1868, 57073, 2741, 36900 }

\* what a resolution answers, and the rule that answered
Resolution(label, via) == [label |-> label, via |-> via]

\* lines 96-103: the substring heuristics on the lower-cased string form,
\* then the string form itself (as given, not lower-cased)
ChainFallback(type) ==
    LET typeStr == toLowerCase(StringOf(type))
    IN IF Includes(typeStr, <<"n","e","a","r">>)
       THEN Resolution(<<"n","e","a","r">>, "heuristic")
       ELSE IF Includes(typeStr, <<"e","v","m">>) \/ Includes(typeStr, <<"e","t","h">>)
       THEN Resolution(<<"e","t","h">>, "heuristic")
       ELSE IF Includes(typeStr, <<"s","o","l">>)
       THEN Resolution(<<"s","o","l","a","n","a">>, "heuristic")
       ELSE IF Includes(typeStr, <<"b","t","c">>)
                 \/ Includes(typeStr, <<"b","i","t","c","o","i","n">>)
       THEN Resolution(<<"b","t","c">>, "heuristic")
       ELSE IF Includes(typeStr, <<"d","o","g","e">>)
       THEN Resolution(<<"d","o","g","e">>, "heuristic")
       ELSE Resolution(StringOf(type), "string")

\* walletTypeToChain without the table of lines 35-93
ResolveChainNoTable(type) == ChainFallback(type)

\* lines 31-104, with the rule that answered
ResolveChain(type) ==
    LET t == ToNumber(type)
    IN IF ~t.isNaN /\ ChainTable(t.n) # <<>>
       THEN Resolution(ChainTable(t.n), "table")
       ELSE ChainFallback(type)

\* lines 31-104
walletTypeToChain(type) == ResolveChain(type).label

\* numeric codes the table does not know
UnknownCodes == { 0, 999, 31337, -1 }

\* strings that are not numbers
ChainNames ==
    { <<"n","e","a","r">>, <<"N","E","A","R","-","w","a","l","l","e","t">>,
      <<"E","V","M">>, <<"e","t","h","e","r","e","u","m">>,
      <<"S","o","l","a","n","a">>, <<"b","t","c">>,
      <<"B","i","t","c","o","i","n">>, <<"d","o","g","e","c","o","i","n">>,
      <<"P","o","l","y","g","o","n">>, <<"u","n","k","n","o","w","n">>,
      <<"T","O","N">>, <<"b","s","c">>, <<>> }

\* the chain codes given to walletTypeToChain: numbers, the same numbers as
\* strings, and names
TypeArgs ==
    { Num(IntString(n)) : n \in ChainCodes \cup UnknownCodes }
       \cup { Str(IntString(n)) : n \in ChainCodes \cup UnknownCodes }
       \cup { Str(s) : s \in ChainNames }

VARIABLES
    cpc,      \* "idle" or "resolved"
    ctype,    \* the chain code of the call
    cresult   \* what the resolution answered

chainVars == <<cpc, ctype, cresult>>

NoResolution == Resolution(<<>>, "none")

\* a call of walletTypeToChain
ResolveCall(type) ==
    /\ cpc = "idle"
    /\ cpc' = "resolved"
    /\ ctype' = type
    /\ cresult' = ResolveChain(type)

\* the caller takes the label
ResolveReturn ==
    /\ cpc = "resolved"
    /\ cpc' = "idle"
    /\ ctype' = Undefined
    /\ cresult' = NoResolution

ChainInit ==
    /\ cpc = "idle"
    /\ ctype = Undefined
    /\ cresult = NoResolution

(***************************************************************************)
(* Balance formatting (wallet provider and NEAR token helpers).            *)
(***************************************************************************)
\* the limbs of a string of decimal digits, most significant limb last
RECURSIVE LimbsOfDigits(_)
LimbsOfDigits(s) ==
    IF Len(s) <= 4 THEN (IF s = <<>> THEN <<>> ELSE <<NatOfDigits(s)>>)
    ELSE <<NatOfDigits(SubSeq(s, Len(s) - 3, Len(s)))>>
            \o LimbsOfDigits(SubSeq(s, 1, Len(s) - 4))

\* BigInt(s) for a string of decimal digits
BigOfString(s) == BigTrim(LimbsOfDigits(s))

\* a - b for a >= b
RECURSIVE BigSubBorrow(_, _, _)
BigSubBorrow(a, b, borrow) ==
    IF a = <<>> THEN <<>>
    ELSE LET d == Head(a) - (IF b = <<>> THEN 0 ELSE Head(b)) - borrow
         IN <<IF d < 0 THEN d + 10000 ELSE d>>
               \o BigSubBorrow(Tail(a), IF b = <<>> THEN <<>> ELSE Tail(b),
                               IF d < 0 THEN 1 ELSE 0)

BigSub(a, b) == BigTrim(BigSubBorrow(a, b, 0))

\* the largest k of lo..(lo + 99 * step), in steps of step, with b * k <= r
LimbSearch(r, b, lo, step) ==
    lo + step * (CHOOSE k \in 0..99 :
                    /\ ~BigLess(r, BigTimes(b, lo + step * k))
                    /\ k < 99 => BigLess(r, BigTimes(b, lo + step * (k + 1))))

\* the largest k below 10000 with b * k <= r, for r < b * 10000
QuotientLimb(r, b) == LimbSearch(r, b, LimbSearch(r, b, 0, 100), 1)

\* long division of the limbs a[1..i] still to come, most significant first,
\* q being the quotient and r the remainder of the limbs above them
RECURSIVE DivideLimbs(_, _, _, _, _)
DivideLimbs(a, i, b, q, r) ==
    IF i = 0 THEN [q |-> q, r |-> r]
    ELSE LET cur == BigTrim(<<a[i]>> \o r)
         IN IF BigLess(cur, b) THEN DivideLimbs(a, i - 1, b, <<0>> \o q, cur)
            ELSE LET k == QuotientLimb(cur, b)
                     rest == BigSub(cur, BigTimes(b, k))
                 IN IF rest = <<>>
                    THEN DivideLimbs(a, i - 1, b, <<k>> \o q, <<>>)
                    ELSE DivideLimbs(a, i - 1, b, <<k>> \o q, rest)

\* BigInt division: the quotient (untrimmed) and the remainder of a by b > 0
BigDivMod(a, b) == DivideLimbs(a, Len(a), b, <<>>, <<>>)

\* BigInt(10 ** decimals): the power is a double
TenToDouble(decimals) == ToDouble(BigTenTo(decimals))

\* String.prototype.padStart(n, "0")
PadStart(s, n) == [i \in 1..(n - Len(s)) |-> "0"] \o s

\* String.prototype.slice(0, n)
SliceTo(s, n) == SubSeq(s, 1, IF Len(s) < n THEN Len(s) ELSE n)

\* String.prototype.replace(/\.?0+$/, ""): the zeros that end s are cut,
\* with the dot before them if there is one
TrimZeros(s) ==
    LET zeros == CHOOSE k \in 0..Len(s) :
                     /\ \A i \in (Len(s) - k + 1)..Len(s) : s[i] = "0"
                     /\ k < Len(s) => s[Len(s) - k] # "0"
        cut == Len(s) - zeros
    IN IF zeros = 0 THEN s
       ELSE IF cut >= 1 /\ s[cut] = "." THEN SubSeq(s, 1, cut - 1)
       ELSE SubSeq(s, 1, cut)

\* the statements of a function run in order: value is computed, then rest
Then(value, rest) == IF value = value THEN rest ELSE rest

\* `${int}.${fraction}` of val over the divisor div, the fraction padded to
\* decimals digits and cut to its first places digits
Fixed(val, div, decimals, places) ==
    LET dm == BigDivMod(val, div)
        int == BigToString(BigTrim(dm.q))
        fraction == SliceTo(PadStart(BigToString(dm.r), decimals), places)
    IN Then(div, Then(dm, Then(int, Then(fraction,
           int \o <<".">> \o fraction))))

\* part_002 lines 241-252
formatBalanceManual(balance, decimals) ==
    LET val == BigOfString(balance)
        fixed == Fixed(val, TenToDouble(decimals), decimals, 8)
    IN IF val = <<>> THEN <<"0">>
       ELSE Then(fixed, TrimZeros(fixed))

\* part_001 lines 331-341
formatBalance(balance, decimals) ==
    LET amount == BigOfString(balance)
    IN IF balance = <<>> \/ balance = <<"0">> THEN <<"0",".","0","0">>
       ELSE Then(amount, Fixed(amount, TenToDouble(decimals), decimals, 4))

\* atomic balances handed to the formatters: small ones, and ones around
\* 10^23 and 10^24
BalanceArgs ==
    { <<"0">>, <<"1">>, IntString(12345), IntString(100000),
      IntString(1500000), IntString(123456789),
      [i \in 1..24 |-> "9"],
      <<"1">> \o [i \in 1..24 |-> "0"],
      <<"5">> \o [i \in 1..24 |-> "0"],
      IntString(99999999) \o IntString(99999999) \o IntString(83222784),
      IntString(12345678) \o IntString(90123456) \o IntString(789012345),
      IntString(250000000) \o [i \in 1..9 |-> "0"] }

\* the decimals of a token
DecimalsArgs == { 0, 4, 5, 6, 8, 9, 18, 22, 23, 24 }

VARIABLES
    fpc,      \* "idle" or "formatted"
    fargs,    \* the balance and the decimals of the call
    fresult   \* the string formatBalanceManual returned

formatVars == <<fpc, fargs, fresult>>

NoFormatArgs == [balance |-> <<>>, decimals |-> 0]

\* a call of formatBalanceManual
FormatCall(balance, decimals) ==
    /\ fpc = "idle"
    /\ fpc' = "formatted"
    /\ fargs' = [balance |-> balance, decimals |-> decimals]
    /\ fresult' = formatBalanceManual(balance, decimals)

\* the caller stores the string
FormatReturn ==
    /\ fpc = "formatted"
    /\ fpc' = "idle"
    /\ fargs' = NoFormatArgs
    /\ fresult' = <<>>

FormatInit ==
    /\ fpc = "idle"
    /\ fargs = NoFormatArgs
    /\ fresult = <<>>

(***************************************************************************)
(* Token discovery: fetchAllTokens (FastNEAR, then Kitwallet and the RPC). *)
(***************************************************************************)
\* an entry of the FastNEAR answer, or the metadata and balance of a token
FtEntry(contractId, symbol, decimals, balance) ==
    [contractId |-> contractId, symbol |-> symbol, decimals |-> decimals,
     balance |-> balance]

\* lines 331-341: BigInt(balance) throws on a string that is not an integer,
\* and BigInt(10 ** decimals) throws when decimals is undefined
FormatBalanceThrows(balance, decimals) ==
    /\ Truthy(balance)
    /\ balance.v # <<"0">>
    /\ ~IsDigits(balance.v) \/ decimals = NoDecimals

\* lines 366-372 and 406-412: a TokenWithBalance
TokenWithBalance(t) ==
    [contractId |-> t.contractId, symbol |-> t.symbol, decimals |-> t.decimals,
     balance |-> t.balance, formatted |-> formatBalance(t.balance.v, t.decimals)]

UsdcEntry ==
    FtEntry("usdc.near", Str(<<"U","S","D","C">>), 6, Str(IntString(1500000)))
EmptyWrapEntry ==
    FtEntry("wrap.near", Str(<<"w","N","E","A","R">>), 24, Str(<<"0">>))
NoDecimalsEntry ==
    FtEntry("ref.near", Str(<<"R","E","F">>), NoDecimals, Str(<<"7">>))
NoSymbolEntry ==
    FtEntry("anon.near", Undefined, 4, Str(IntString(12345)))
FractionEntry ==
    FtEntry("dai.near", Str(<<"d","a","i">>), 18, Str(<<"1",".","5">>))

FtEntries ==
    { UsdcEntry, EmptyWrapEntry, NoDecimalsEntry, NoSymbolEntry, FractionEntry }

\* the body of an answer: an array, another JSON value, or no JSON at all
ArrayBody(entries) == [t |-> "array", v |-> entries]
ObjectBody == [t |-> "object", v |-> <<>>]
InvalidBody == [t |-> "invalid", v |-> <<>>]
NoBody == [t |-> "none", v |-> <<>>]
NoAnswer == Response("none", NoBody)

\* the answers of the FastNEAR endpoint
PrimaryResponses ==
    { Response("error", NoBody), Response("status", NoBody),
      Response("ok", InvalidBody), Response("ok", ObjectBody) }
       \cup { Response("ok", ArrayBody(entries)) : entries \in
                { <<>>, <<UsdcEntry>>, <<EmptyWrapEntry>>, <<NoSymbolEntry>>,
                  <<UsdcEntry, EmptyWrapEntry>>, <<UsdcEntry, NoDecimalsEntry>>,
                  <<FractionEntry>> } }

\* the body of the Kitwallet answer: { list }, {} without a list, or null
ListBody(list) == [t |-> "list", v |-> list]
NullBody == [t |-> "null", v |-> <<>>]

\* the answers of the Kitwallet endpoint
SecondaryResponses ==
    { Response("error", NoBody), Response("status", NoBody),
      Response("ok", InvalidBody), Response("ok", NullBody),
      Response("ok", ObjectBody), Response("ok", ListBody(<<>>)),
      Response("ok", ListBody(<<"usdc.near">>)),
      Response("ok", ListBody(<<"usdc.near", "wrap.near">>)) }

\* how the two RPC queries of one likely token end: a zero balance (also
\* when ft_balance_of fails, line 327), no metadata, an exception, or the
\* metadata and the balance
QueryOutcome(kind, entry) == [kind |-> kind, entry |-> entry]
NoEntry == FtEntry("", Undefined, NoDecimals, Undefined)

QueryOutcomes(contractId) ==
    { QueryOutcome("zero", NoEntry), QueryOutcome("nometadata", NoEntry),
      QueryOutcome("throws", NoEntry) }
       \cup { QueryOutcome("token", [e EXCEPT !.contractId = contractId]) :
                e \in FtEntries }

\* the outcomes of the queries of a list of likely tokens
RECURSIVE QueryOutcomeLists(_)
QueryOutcomeLists(list) ==
    IF list = <<>> THEN { <<>> }
    ELSE { <<o>> \o rest : o \in QueryOutcomes(Head(list)),
                           rest \in QueryOutcomeLists(Tail(list)) }

\* what fetchAllTokens ends with
NoTokens == [kind |-> "none", tokens |-> <<>>]
TokenList(tokens) == [kind |-> "list", tokens |-> tokens]
TokensRaised == [kind |-> "raised", tokens |-> <<>>]

\* lines 366-372: data.map over an array
MapThrows(entries) ==
    \E i \in 1..Len(entries) :
        FormatBalanceThrows(entries[i].balance, entries[i].decimals)

MapEntries(entries) == [i \in 1..Len(entries) |-> TokenWithBalance(entries[i])]

\* lines 361-377 without the test of res.ok and of the array: whatever the
\* endpoint answers, the function goes on to the fallback
PrimaryOutcomeAlwaysFallback(resp) == NoTokens

\* lines 361-377: the list returned at line 366, or NoTokens when the
\* function goes on to the fallback
PrimaryOutcome(resp) ==
    IF resp.kind = "ok" /\ resp.body.t = "array" /\ ~MapThrows(resp.body.v)
    THEN TokenList(MapEntries(resp.body.v))
    ELSE NoTokens

\* lines 387-417: the promise of one likely token resolves to a token or null
QueryYieldsToken(outcome) ==
    /\ outcome.kind = "token"
    /\ outcome.entry.balance # Str(<<"0">>)
    /\ ~FormatBalanceThrows(outcome.entry.balance, outcome.entry.decimals)

\* line 420: results.filter(t => t !== null)
RECURSIVE FilterTokens(_)
FilterTokens(outcomes) ==
    IF outcomes = <<>> THEN <<>>
    ELSE (IF QueryYieldsToken(Head(outcomes))
          THEN <<TokenWithBalance(Head(outcomes).entry)>> ELSE <<>>)
            \o FilterTokens(Tail(outcomes))

\* lines 380-385 and 421-424: the likely tokens, or the list returned at once
SecondaryFails(resp) ==
    \/ resp.kind \in {"error", "status"}
    \/ resp.body.t \in {"invalid", "null"}

LikelyTokens(resp) == IF resp.body.t = "list" THEN resp.body.v ELSE <<>>

VARIABLES
    tpc,        \* "idle", "primary", "secondary", "queries" or "done"
    asked,      \* the endpoints this call has sent a request to, in order
    tprimary,   \* the answer of FastNEAR
    tsecondary, \* the answer of Kitwallet
    tqueries,   \* how the queries of the likely tokens ended
    tresult     \* what the call ended with

tokensVars == <<tpc, asked, tprimary, tsecondary, tqueries, tresult>>

\* line 362: the call of fetchAllTokens sends the request to FastNEAR
FetchAllTokensCall ==
    /\ tpc = "idle"
    /\ tpc' = "primary"
    /\ asked' = <<"primary">>
    /\ UNCHANGED <<tprimary, tsecondary, tqueries, tresult>>

\* lines 362-381: FastNEAR answers; the list is returned, or the request to
\* Kitwallet is sent
PrimarySettles(resp) ==
    /\ tpc = "primary"
    /\ tprimary' = resp
    /\ IF PrimaryOutcome(resp).kind = "list"
       THEN /\ tpc' = "done"
            /\ tresult' = PrimaryOutcome(resp)
            /\ asked' = asked
       ELSE /\ tpc' = "secondary"
            /\ tresult' = tresult
            /\ asked' = Append(asked, "secondary")
    /\ UNCHANGED <<tsecondary, tqueries>>

\* lines 381-419: Kitwallet answers; [] is returned, or the balance and the
\* metadata of every likely token are asked from the RPC
SecondarySettles(resp) ==
    /\ tpc = "secondary"
    /\ tsecondary' = resp
    /\ IF SecondaryFails(resp) \/ LikelyTokens(resp) = <<>>
       THEN /\ tpc' = "done"
            /\ tresult' = TokenList(<<>>)
       ELSE /\ tpc' = "queries"
            /\ tresult' = tresult
    /\ UNCHANGED <<asked, tprimary, tqueries>>

\* lines 387-420: every promise has resolved
QueriesSettle(outcomes) ==
    /\ tpc = "queries"
    /\ outcomes \in QueryOutcomeLists(LikelyTokens(tsecondary))
    /\ tqueries' = outcomes
    /\ tresult' = TokenList(FilterTokens(outcomes))
    /\ tpc' = "done"
    /\ UNCHANGED <<asked, tprimary, tsecondary>>

\* the caller takes the list
TokensReturn ==
    /\ tpc = "done"
    /\ tpc' = "idle"
    /\ asked' = <<>>
    /\ tprimary' = NoAnswer
    /\ tsecondary' = NoAnswer
    /\ tqueries' = <<>>
    /\ tresult' = NoTokens

TokensInit ==
    /\ tpc = "idle"
    /\ asked = <<>>
    /\ tprimary = NoAnswer
    /\ tsecondary = NoAnswer
    /\ tqueries = <<>>
    /\ tresult = NoTokens

(***************************************************************************)
(* The balances of the wallet provider: fetchBalancesFromKit.              *)
(* A balance map is a function from display keys to formatted strings.     *)
(***************************************************************************)
EmptyMap == [k \in {} |-> <<>>]

\* { ...a, ...b }
Over(a, b) ==
    [k \in (DOMAIN a) \cup (DOMAIN b) |-> IF k \in DOMAIN b THEN b[k] ELSE a[k]]

\* map[key] = value
Put(map, key, value) == Over(map, [k \in {key} |-> value])

\* `[${chainLabel}] ${displaySymbol}`
BalanceKey(chainLabel, displaySymbol) ==
    <<"[">> \o chainLabel \o <<"]", " ">> \o displaySymbol

\* lines 172-173: Number(BigInt(yocto) / BigInt(10 ** 20)) / 10000, then
\* toFixed(5) and the replace; the quotient is below 2^53, so the number is
\* the quotient's ten-thousandths and toFixed(5) prints them with a fifth 0
NativeFormat(yocto) ==
    LET q == BigTrim(BigDivMod(BigOfString(yocto), TenToDouble(20)).q)
        fixed == BigToString(BigDiv(q, 10000)) \o <<".">>
                    \o LimbDigits(BigMod(q, 10000)) \o <<"0">>
    IN Then(q, Then(fixed, TrimZeros(fixed)))

\* how rpcQuery(view_account) ends: it throws, or it returns result
RpcFailed == [kind |-> "failed", amount |-> Undefined]
RpcResult(amount) == [kind |-> "result", amount |-> amount]
NoRpc == [kind |-> "none", amount |-> Undefined]

RpcOutcomes ==
    { RpcFailed, RpcResult(Undefined), RpcResult(Str(<<"0">>)),
      RpcResult(Str(<<"5">> \o [i \in 1..24 |-> "0"])),
      RpcResult(Str(IntString(12345) \o [i \in 1..20 |-> "0"])) }

\* lines 169-176
NativeEntries(outcome) ==
    IF Truthy(outcome.amount)
    THEN Put(EmptyMap, BalanceKey(sNEAR, sNEAR), NativeFormat(outcome.amount.v))
    ELSE EmptyMap

\* lines 180-184: tokens.forEach; t.symbol.toUpperCase() throws on a token
\* without a symbol, and the catch of line 185 ends the loop
RECURSIVE DiscoveryEntries(_, _)
DiscoveryEntries(map, tokens) ==
    IF tokens = <<>> \/ Head(tokens).symbol = Undefined THEN map
    ELSE DiscoveryEntries(
             Put(map, BalanceKey(sNEAR, toUpperCase(Head(tokens).symbol.v)),
                 Head(tokens).formatted),
             Tail(tokens))

\* the lists fetchAllTokens resolves to
TokenLists ==
    { MapEntries(entries) : entries \in
        { <<>>, <<UsdcEntry>>, <<EmptyWrapEntry>>, <<UsdcEntry, EmptyWrapEntry>>,
          <<NoSymbolEntry, UsdcEntry>> } }

\* an element of kit.walletsTokens
KitToken(symbol, decimals, chain_id, address, chain, balance) ==
    [token |-> [symbol |-> symbol, decimals |-> decimals, chain_id |-> chain_id,
                address |-> address, omniAddress |-> Undefined,
                chain |-> chain],
     balance |-> balance]

sWrapAsset == sNep141 \o sWrapNear

KitNear ==
    KitToken(sNEAR, 24, Num(IntString(1010)), Str(<<"n","a","t","i","v","e">>),
             Undefined, Str(IntString(49) \o [i \in 1..23 |-> "0"]))
KitWrap ==
    KitToken(sNEAR, 24, Num(IntString(0 - 4)), Str(sWrapAsset), Undefined,
             Str(<<"1">> \o [i \in 1..24 |-> "0"]))
KitBaseUsdc ==
    KitToken(<<"u","s","d","c">>, 6, Num(IntString(8453)), Str(<<"0","x">>),
             Undefined, Str(IntString(2500000)))
KitBsc ==
    KitToken(<<"b","n","b">>, 18, Undefined, Undefined, Str(<<"b","s","c">>),
             Str(<<"1">> \o [i \in 1..18 |-> "0"]))
KitZero ==
    KitToken(<<"u","s","d","t">>, 6, Num(IntString(1)), Str(<<"0","x">>),
             Undefined, Num(<<"0">>))

\* kit.walletsTokens: absent, a getter that throws, or a list
NoKitTokens == [kind |-> "none", tokens |-> <<>>]
KitThrows == [kind |-> "throws", tokens |-> <<>>]
KitTokens(tokens) == [kind |-> "tokens", tokens |-> tokens]

KitArgs ==
    { NoKitTokens, KitThrows, KitTokens(<<KitNear>>), KitTokens(<<KitWrap>>),
      KitTokens(<<KitBaseUsdc, KitBsc>>), KitTokens(<<KitZero, KitNear>>) }

\* lines 206-221
ChainLabel(token) ==
    LET label ==
          IF /\ token.chain_id = Num(IntString(0 - 4))
             /\ token.address = Str(sWrapAsset) \/ token.omniAddress = Str(sWrapAsset)
          THEN sNEAR
          ELSE IF Truthy(token.chain_id)
          THEN toUpperCase(walletTypeToChain(token.chain_id))
          ELSE toUpperCase(walletTypeToChain(
                   OrElse(token.chain, Str(<<"u","n","k","n","o","w","n">>))))
    IN IF label = <<"B","S","C">> THEN <<"B","N","B">> ELSE label

\* lines 207-212
DisplaySymbol(token) ==
    IF /\ token.chain_id = Num(IntString(0 - 4))
       /\ token.address = Str(sWrapAsset) \/ token.omniAddress = Str(sWrapAsset)
    THEN <<"w","N","E","A","R">>
    ELSE toUpperCase(token.symbol)

\* lines 195-227: kitTokens.forEach
RECURSIVE ConnectorEntries(_, _)
ConnectorEntries(map, tokens) ==
    IF tokens = <<>> THEN map
    ELSE LET t == Head(tokens)
         IN ConnectorEntries(
                IF Truthy(t.balance)
                THEN Put(map, BalanceKey(ChainLabel(t.token), DisplaySymbol(t.token)),
                         formatBalanceManual(t.balance.v, t.token.decimals))
                ELSE map,
                Tail(tokens))

\* the entries of the connector are written first, those of the RPC and of
\* the discovery over them
MergeConnectorFirst(map, kit) ==
    IF kit.kind = "tokens" THEN Over(ConnectorEntries(EmptyMap, kit.tokens), map)
    ELSE map

\* lines 191-231: the entries of the connector are written into newBalances
MergeConnector(map, kit) ==
    IF kit.kind = "tokens" THEN ConnectorEntries(map, kit.tokens) ELSE map

VARIABLES
    kpc,          \* "idle", "rpc", "tokens" or "done"
    kcall,        \* the arguments: is there addresses.near, and kit.walletsTokens
    krpc,         \* how rpcQuery ended
    ktokens,      \* what fetchAllTokens resolved to
    queried,      \* the sources this pass has asked, in order
    newBalances,  \* the local map of the pass
    balances      \* state.balances

balanceVars == <<kpc, kcall, krpc, ktokens, queried, newBalances, balances>>

NoPass == [near |-> FALSE, kit |-> NoKitTokens]

\* lines 190-238: the connector's entries, then setState
Finish(map, kit, asked2) ==
    /\ newBalances' = MergeConnector(map, kit)
    /\ queried' = Append(asked2, "connector")
    /\ balances' = IF DOMAIN newBalances' # {} THEN Over(balances, newBalances')
                   ELSE balances
    /\ kpc' = "done"

\* lines 157-163: the call; without a NEAR address nothing is awaited
FetchBalancesCall(near, kit) ==
    /\ kpc = "idle"
    /\ kcall' = [near |-> near, kit |-> kit]
    /\ IF near
       THEN /\ kpc' = "rpc"
            /\ queried' = <<"rpc">>
            /\ newBalances' = EmptyMap
            /\ balances' = balances
       ELSE Finish(EmptyMap, kit, <<>>)
    /\ UNCHANGED <<krpc, ktokens>>

\* lines 163-179 and 185: rpcQuery ends; fetchAllTokens is called, or the
\* catch is entered
RpcSettles(outcome) ==
    /\ kpc = "rpc"
    /\ krpc' = outcome
    /\ IF outcome.kind = "failed"
       THEN Finish(newBalances, kcall.kit, queried)
       ELSE /\ kpc' = "tokens"
            /\ queried' = Append(queried, "discovery")
            /\ newBalances' = NativeEntries(outcome)
            /\ balances' = balances
    /\ UNCHANGED <<kcall, ktokens>>

\* lines 179-238: fetchAllTokens has resolved
TokensSettle(tokens) ==
    /\ kpc = "tokens"
    /\ ktokens' = tokens
    /\ Finish(DiscoveryEntries(newBalances, tokens), kcall.kit, queried)
    /\ UNCHANGED <<kcall, krpc>>

\* the pass is over
PassReturn ==
    /\ kpc = "done"
    /\ kpc' = "idle"
    /\ kcall' = NoPass
    /\ krpc' = NoRpc
    /\ ktokens' = <<>>
    /\ queried' = <<>>
    /\ newBalances' = EmptyMap
    /\ balances' = balances

BalancesInit ==
    /\ kpc = "idle"
    /\ kcall = NoPass
    /\ krpc = NoRpc
    /\ ktokens = <<>>
    /\ queried = <<>>
    /\ newBalances = EmptyMap
    /\ balances = EmptyMap

(***************************************************************************)
(* The chat of components/chat-interface.tsx: handleSend and resetChat.    *)
(* A controller is the number of the request it was made for; the ref      *)
(* holds a controller or NoController.                                     *)
(***************************************************************************)
NoController == 0

\* how fetch("/api/chat") and res.json() end for handleSend
ChatOutcomes == { "data", "status", "error", "abort" }

VARIABLES
    messages,            \* the message list: who wrote, and for which request
    isLoading,           \* the loading flag
    renderedLoading,     \* isLoading as the rendered handleSend closes over it
    abortControllerRef,  \* abortControllerRef.current
    inFlight,            \* the requests whose fetch has not settled
    aborted,             \* the controllers whose abort() has been called
    created              \* how many controllers have been made

chatVars == <<messages, isLoading, renderedLoading, abortControllerRef,
              inFlight, aborted, created>>

ChatMessage(role, request) == [role |-> role, request |-> request]

\* lines 191-193 and 271-272: abort() of the controller in the ref
AbortCurrent ==
    IF abortControllerRef # NoController
    THEN aborted \cup {abortControllerRef}
    ELSE aborted

\* lines 189-220: handleSend up to the await of fetch
HandleSend(hasText) ==
    /\ created < MaxRequests
    /\ aborted' = AbortCurrent
    /\ IF ~hasText \/ renderedLoading
       THEN UNCHANGED <<messages, isLoading, abortControllerRef, inFlight, created>>
       ELSE /\ messages' = Append(messages, ChatMessage("user", created + 1))
            /\ isLoading' = TRUE
            /\ created' = created + 1
            /\ abortControllerRef' = created + 1
            /\ inFlight' = inFlight \cup {created + 1}
    /\ UNCHANGED renderedLoading

\* lines 255-260 without the test of the ref
FinallyUnguarded(controller) ==
    /\ isLoading' = FALSE
    /\ abortControllerRef' = NoController

\* lines 255-260
Finally(controller) ==
    IF abortControllerRef = controller
    THEN /\ isLoading' = FALSE
         /\ abortControllerRef' = NoController
    ELSE UNCHANGED <<isLoading, abortControllerRef>>

\* lines 221-260: the fetch of a request settles and handleSend resumes; a
\* request whose controller was aborted ends with an AbortError, unless the
\* answer was there before the abort
ChatSettles(controller, outcome) ==
    /\ controller \in inFlight
    /\ outcome = "abort" => controller \in aborted
    /\ inFlight' = inFlight \ {controller}
    /\ messages' =
          IF outcome = "abort" \/ abortControllerRef # controller THEN messages
          ELSE Append(messages, ChatMessage(IF outcome = "data" THEN "ai"
                                            ELSE "ai-error", controller))
    /\ Finally(controller)
    /\ UNCHANGED <<renderedLoading, aborted, created>>

\* mutant of ResetChat: the loading flag is left as it is
ResetChatKeepsLoading ==
    /\ aborted' = AbortCurrent
    /\ abortControllerRef' = NoController
    /\ messages' = <<>>
    /\ UNCHANGED <<isLoading, renderedLoading, inFlight, created>>

\* lines 270-278
ResetChat ==
    /\ aborted' = AbortCurrent
    /\ abortControllerRef' = NoController
    /\ isLoading' = FALSE
    /\ messages' = <<>>
    /\ UNCHANGED <<renderedLoading, inFlight, created>>

\* React renders the component again: handleSend sees the loading flag
Render ==
    /\ renderedLoading # isLoading
    /\ renderedLoading' = isLoading
    /\ UNCHANGED <<messages, isLoading, abortControllerRef, inFlight, aborted,
                   created>>

ChatInit ==
    /\ messages = <<>>
    /\ isLoading = FALSE
    /\ renderedLoading = FALSE
    /\ abortControllerRef = NoController
    /\ inFlight = {}
    /\ aborted = {}
    /\ created = 0

(***************************************************************************)
(* Balance polling of the wallet provider: the connector's wallets, the    *)
(* provider's state and the interval of the polling effect.  A wallet is   *)
(* named by the chain walletTypeToChain gives it; an address stands for    *)
(* itself under the name of its wallet.                                    *)
(***************************************************************************)
KitWallets == { "near", "eth", "sol", "999", "btc" }

\* wallets with none of address, omniAddress and publicKey (line 131)
WithoutAddress == { "btc" }

\* accountId: null
NoAccount == "null"

VARIABLES
    mounted,          \* the provider is in the tree
    kitMade,          \* hotKitRef.current is set
    listening,        \* the connector holds the listeners of unsubscribersRef
    connecting,       \* connectWallet awaits kit.connect()
    kitWallets,       \* kit.wallets
    accountId,        \* state.accountId
    walletAddresses,  \* the keys of state.walletAddresses, as Object.keys
                      \* and Object.values go through them
    connectedChains,  \* state.connectedChains
    timers,           \* the intervals set and not cleared
    cleanup,          \* the polling effect returned its clearInterval
    captured,         \* the addresses the interval's callback closes over
    polls             \* the polls the interval has started

pollingVars == <<mounted, kitMade, listening, connecting, kitWallets, accountId,
                 walletAddresses, connectedChains, timers, cleanup, captured,
                 polls>>

\* the orders in which kit.wallets may list the wallets
Orderings(wallets) ==
    { order \in [1..Cardinality(wallets) -> wallets] :
        \A i, j \in 1..Cardinality(wallets) : order[i] = order[j] => i = j }

\* the keys that are array indices: an object lists them first
IntegerKeys == { "999" }

\* Object.keys of an object whose keys were written in that order
ObjectKeys(written) ==
    SelectSeq(written, LAMBDA k : k \in IntegerKeys)
        \o SelectSeq(written, LAMBDA k : k \notin IntegerKeys)

Has(keys, key) == \E i \in 1..Len(keys) : keys[i] = key

\* mutant of PrimaryId: the eth address is preferred to the near address
PrimaryIdEthFirst(addresses) ==
    IF Has(addresses, "eth") THEN "eth"
    ELSE IF Has(addresses, "near") THEN "near"
    ELSE addresses[1]

\* line 138: addresses.near || addresses.eth || Object.values(addresses)[0]
PrimaryId(addresses) ==
    IF Has(addresses, "near") THEN "near"
    ELSE IF Has(addresses, "eth") THEN "eth"
    ELSE addresses[1]

\* lines 255-269: React clears the interval of the last run and runs the
\* effect again, with the state as committed
PollingEffect(account, addresses, kit) ==
    LET starts == account # NoAccount /\ addresses # <<>> /\ kit
    IN  /\ timers' = (IF cleanup THEN timers - 1 ELSE timers)
                     + (IF starts THEN 1 ELSE 0)
        /\ cleanup' = starts
        /\ captured' = IF starts THEN addresses ELSE <<>>

\* lines 122-153; the balance pass of line 149 is FetchBalancesCall.  The
\* connector lists its wallets in an order of its own
syncWallets(walletList, kit) ==
    IF walletList \ WithoutAddress = {} \/ ~mounted
    THEN UNCHANGED <<accountId, walletAddresses, connectedChains, timers,
                     cleanup, captured>>
    ELSE \E order \in Orderings(walletList \ WithoutAddress) :
            LET addresses == ObjectKeys(order)
            IN  /\ accountId' = PrimaryId(addresses)
                /\ walletAddresses' = addresses
                /\ connectedChains' = addresses
                /\ PollingEffect(PrimaryId(addresses), addresses, kit)

\* lines 272-338: connectWallet up to the await of kit.connect(); a new
\* connector may restore the wallets of an earlier session
connectWallet(restored) ==
    /\ mounted
    /\ connecting' = TRUE
    /\ IF kitMade
       THEN UNCHANGED <<kitMade, listening, kitWallets, accountId,
                        walletAddresses, connectedChains, timers, cleanup, captured>>
       ELSE /\ kitMade' = TRUE
            /\ listening' = TRUE
            /\ kitWallets' = restored
            /\ syncWallets(restored, TRUE)
    /\ UNCHANGED <<mounted, polls>>

\* lines 345-346: kit.connect() returns
ConnectReturns ==
    /\ connecting
    /\ connecting' = FALSE
    /\ syncWallets(kitWallets, kitMade)
    /\ UNCHANGED <<mounted, kitMade, listening, kitWallets, polls>>

\* lines 314-317: a wallet joins the connector, which tells its listeners
KitConnects(wallet) ==
    /\ kitMade
    /\ wallet \notin kitWallets
    /\ kitWallets' = kitWallets \cup {wallet}
    /\ IF listening THEN syncWallets(kitWallets', kitMade)
       ELSE UNCHANGED <<accountId, walletAddresses, connectedChains, timers, cleanup, captured>>
    /\ UNCHANGED <<mounted, kitMade, listening, connecting, polls>>

\* lines 319-322: a wallet leaves the connector, which tells its listeners
KitDisconnects(wallet) ==
    /\ wallet \in kitWallets
    /\ kitWallets' = kitWallets \ {wallet}
    /\ IF listening THEN syncWallets(kitWallets', kitMade)
       ELSE UNCHANGED <<accountId, walletAddresses, connectedChains, timers, cleanup, captured>>
    /\ UNCHANGED <<mounted, kitMade, listening, connecting, polls>>

\* lines 353-384: disconnect(); the wallets whose kit.disconnect throws stay
disconnect(remaining) ==
    /\ mounted
    /\ remaining \subseteq kitWallets
    /\ kitWallets' = remaining
    /\ listening' = FALSE
    /\ accountId' = NoAccount
    /\ walletAddresses' = <<>>
    /\ connectedChains' = <<>>
    /\ balances' = EmptyMap
    /\ PollingEffect(NoAccount, {}, kitMade)
    /\ UNCHANGED <<mounted, kitMade, connecting, polls>>

\* lines 264-266: the interval fires and starts a balance pass
Poll ==
    /\ timers > 0
    /\ polls < MaxPolls
    /\ polls' = polls + 1
    /\ UNCHANGED <<mounted, kitMade, listening, connecting, kitWallets,
                   accountId, walletAddresses, connectedChains, timers, cleanup, captured>>

\* lines 268 and 548-554: the provider leaves the tree
Unmount ==
    /\ mounted
    /\ mounted' = FALSE
    /\ timers' = IF cleanup THEN timers - 1 ELSE timers
    /\ cleanup' = FALSE
    /\ captured' = <<>>
    /\ listening' = FALSE
    /\ UNCHANGED <<kitMade, connecting, kitWallets, accountId, walletAddresses,
                   connectedChains, polls>>

PollingInit ==
    /\ mounted = TRUE
    /\ kitMade = FALSE
    /\ listening = FALSE
    /\ connecting = FALSE
    /\ kitWallets = {}
    /\ accountId = NoAccount
    /\ walletAddresses = <<>>
    /\ connectedChains = <<>>
    /\ timers = 0
    /\ cleanup = FALSE
    /\ captured = <<>>
    /\ polls = 0

(***************************************************************************)
(* signAndSendTransaction of the wallet provider.  A transaction is its    *)
(* receiver and its place in the payload; its actions pass through         *)
(* processTransaction in place and are left out.                           *)
(***************************************************************************)
\* tx.receiverId || tx.receiver_id of the entries of a payload ("" when missing)
ReceiverArgs == { "wrap.near", "intents.near", "" }

\* the payloads: arrays of up to MaxBatch entries, and single transactions
PayloadArgs ==
    { [batch |-> TRUE, txs |-> txs] : txs \in SeqsUpTo(ReceiverArgs, MaxBatch) }
    \cup { [batch |-> FALSE, txs |-> <<r>>] : r \in ReceiverArgs }

\* lines 392-405: what the lookup of the active wallet finds
LookupArgs == { "no account", "no kit", "not found", "found" }

\* the signing methods of the wallet
MethodArgs == [ sendTransactions : BOOLEAN, sendTransaction : BOOLEAN ]

\* what a call of the wallet ends with: a hash, a falsy value, a rejection
WalletOutcomes == { "hash", "empty", "reject" }

VARIABLES
    spc,             \* "idle", "batch", "sequential", "single", "done"
    smethod,         \* the method of the wallet the call uses, "" for none
    stxs,            \* payload.map(processTransaction)
    submitted,       \* the transactions handed to the wallet, call by call
    executedHashes,  \* line 470
    sresult          \* what signAndSendTransaction resolved or rejected with

signVars == <<spc, smethod, stxs, submitted, executedHashes, sresult>>

NoSigning == [kind |-> "none", value |-> ""]
SignRaises(msg) == [kind |-> "error", value |-> msg]
\* line 499
SignReturns(hash) ==
    [kind |-> "hash", value |-> IF hash = "" THEN "unknown" ELSE hash]

\* lines 408-444
processTransaction(receiver, i) ==
    [receiverId |-> IF receiver = "" THEN "v1.comet.near" ELSE receiver,
     entry |-> i]

\* what the wallet answers for a transaction
HashOf(tx, outcome) ==
    IF outcome = "hash" THEN tx.receiverId ELSE ""

\* the last element of an array ("" for undefined)
LastOf(hashes) == IF hashes = <<>> THEN "" ELSE hashes[Len(hashes)]

\* lines 388-497: the call, up to its first await
SignCall(lookup, methods, payload) ==
    /\ spc = "idle"
    /\ executedHashes' = <<>>
    /\ LET txs == [i \in 1..Len(payload.txs) |->
                      processTransaction(payload.txs[i], i)]
           refuse(msg) == /\ spc' = "done"
                          /\ sresult' = SignRaises(msg)
                          /\ UNCHANGED <<smethod, stxs, submitted>>
       IN  CASE lookup = "no account" -> refuse("No wallet connected")
             [] lookup = "no kit" -> refuse("HOT Kit not initialized")
             [] lookup = "not found" ->
                    refuse("Active wallet instance not found. Please reconnect.")
             [] OTHER ->
                    /\ stxs' = txs
                    /\ smethod' =
                          IF payload.batch
                          THEN IF methods.sendTransactions THEN "sendTransactions"
                               ELSE IF methods.sendTransaction THEN "sendTransaction"
                               ELSE ""
                          ELSE IF methods.sendTransaction THEN "sendTransaction"
                               ELSE IF methods.sendTransactions THEN "sendTransactions"
                               ELSE ""
                    /\ IF payload.batch
                       THEN IF methods.sendTransactions
                            THEN /\ spc' = "batch"
                                 /\ submitted' = <<txs>>
                                 /\ sresult' = NoSigning
                            ELSE IF methods.sendTransaction
                            THEN IF txs = <<>>
                                 THEN /\ spc' = "done"
                                      /\ submitted' = <<>>
                                      /\ sresult' = SignReturns("")
                                 ELSE /\ spc' = "sequential"
                                      /\ submitted' = << <<txs[1]>> >>
                                      /\ sresult' = NoSigning
                            ELSE /\ spc' = "done"
                                 /\ submitted' = <<>>
                                 /\ sresult' = SignRaises("Wallet signing method not available")
                       ELSE IF methods.sendTransaction \/ methods.sendTransactions
                            THEN /\ spc' = "single"
                                 /\ submitted' = <<txs>>
                                 /\ sresult' = NoSigning
                            ELSE /\ spc' = "done"
                                 /\ submitted' = <<>>
                                 /\ sresult' = SignRaises("Wallet signing method not available")

\* mutant of SequentialStep: a rejected entry is passed over
SequentialStepPassesOver(outcome) ==
    LET tx == stxs[Len(submitted)]
        hashes == IF outcome = "reject" THEN executedHashes
                  ELSE Append(executedHashes, HashOf(tx, outcome))
    IN  /\ executedHashes' = hashes
        /\ IF Len(submitted) < Len(stxs)
           THEN /\ submitted' = Append(submitted, <<stxs[Len(submitted) + 1]>>)
                /\ UNCHANGED <<spc, sresult>>
           ELSE /\ spc' = "done"
                /\ sresult' = SignReturns(LastOf(hashes))
                /\ UNCHANGED submitted

\* lines 471-476 and 494-497: sendTransaction of the entry in hand settles
SequentialStep(outcome) ==
    LET tx == stxs[Len(submitted)]
        hashes == Append(executedHashes, HashOf(tx, outcome))
    IN  IF outcome = "reject"
        THEN /\ spc' = "done"
             /\ sresult' = SignRaises("rejected")
             /\ UNCHANGED <<submitted, executedHashes>>
        ELSE /\ executedHashes' = hashes
             /\ IF Len(submitted) < Len(stxs)
                THEN /\ submitted' = Append(submitted, <<stxs[Len(submitted) + 1]>>)
                     /\ UNCHANGED <<spc, sresult>>
                ELSE /\ spc' = "done"
                     /\ sresult' = SignReturns(LastOf(hashes))
                     /\ UNCHANGED submitted

\* lines 467-477
SequentialSettles(outcome) ==
    /\ spc = "sequential"
    /\ SequentialStep(outcome)
    /\ UNCHANGED <<smethod, stxs>>

\* lines 454-466: sendTransactions settles with count hashes, with a value
\* that is no array (count = -1), or rejects
BatchSettles(outcome, count) ==
    /\ spc = "batch"
    /\ spc' = "done"
    /\ sresult' =
          IF outcome = "reject" THEN SignRaises("rejected")
          ELSE IF count = -1 THEN SignReturns("batch-success")
          ELSE IF count # Len(stxs) THEN SignRaises("Batch transaction incomplete")
          ELSE IF count = 0 THEN SignReturns("")
          ELSE SignReturns(HashOf(stxs[count], outcome))
    /\ UNCHANGED <<smethod, stxs, submitted, executedHashes>>

\* lines 480-493
SingleSettles(outcome) ==
    /\ spc = "single"
    /\ spc' = "done"
    /\ sresult' = IF outcome = "reject" THEN SignRaises("rejected")
                  ELSE SignReturns(HashOf(stxs[1], outcome))
    /\ UNCHANGED <<smethod, stxs, submitted, executedHashes>>

\* the caller takes the result
SignReturn ==
    /\ spc = "done"
    /\ spc' = "idle"
    /\ smethod' = ""
    /\ stxs' = <<>>
    /\ submitted' = <<>>
    /\ executedHashes' = <<>>
    /\ sresult' = NoSigning

SignInit ==
    /\ spc = "idle"
    /\ smethod = ""
    /\ stxs = <<>>
    /\ submitted = <<>>
    /\ executedHashes = <<>>
    /\ sresult = NoSigning

(***************************************************************************)
(* The wallet provider as a whole: syncWallets starts a balance pass, and  *)
(* disconnect() may come while the pass is in flight.  One pass is         *)
(* followed at a time: a sync during a pass starts no second one here.     *)
(***************************************************************************)
\* the wallets a new connector restores
RestoredArgs == { {}, {"near"}, {"eth", "btc"} }

\* kit.walletsTokens during a pass
WalletKitArgs == { NoKitTokens, KitTokens(<<KitBaseUsdc, KitBsc>>) }

\* how rpcQuery ends during a pass
WalletRpcOutcomes ==
    { RpcFailed, RpcResult(Str(<<"5">> \o [i \in 1..24 |-> "0"])) }

\* what fetchAllTokens resolves to during a pass
WalletTokenLists == { MapEntries(<<>>), MapEntries(<<UsdcEntry>>) }

\* line 149: fetchBalancesFromKit(kit, addresses) at the end of a sync that
\* found addresses
FetchAfterSync(walletList, kit) ==
    IF walletList \ WithoutAddress # {} /\ kpc = "idle"
    THEN FetchBalancesCall("near" \in walletList, kit)
    ELSE UNCHANGED balanceVars

\* lines 272-338 with the pass that syncWallets starts
ConnectFetches(restored, kit) ==
    /\ connectWallet(restored)
    /\ FetchAfterSync(IF kitMade THEN {} ELSE restored, kit)

\* lines 345-346 with the pass that syncWallets starts
ConnectReturnsFetches(kit) ==
    /\ ConnectReturns
    /\ FetchAfterSync(kitWallets, kit)

Init ==
    /\ CatalogInit /\ QuoteInit /\ CrossInit /\ BuilderInit
    /\ ChainInit /\ FormatInit /\ TokensInit /\ BalancesInit
    /\ ChatInit /\ PollingInit /\ SignInit

\* the state of the swap core and of the wallet provider
swapVars == <<catalogVars, quoteVars, crossVars, builderVars>>
providerVars == <<chainVars, formatVars, tokensVars, balanceVars>>
uiVars == <<chatVars, pollingVars, signVars>>

vars == <<swapVars, providerVars, uiVars>>

\* what the operations of one component leave alone
exceptCatalog == <<quoteVars, crossVars, builderVars, providerVars, uiVars>>
exceptQuote == <<catalogVars, crossVars, builderVars, providerVars, uiVars>>
exceptBuilder == <<catalogVars, quoteVars, crossVars, providerVars, uiVars>>
exceptCrossChain == <<quoteVars, builderVars, providerVars, uiVars>>
exceptChain == <<swapVars, formatVars, tokensVars, balanceVars, uiVars>>
exceptFormat == <<swapVars, chainVars, tokensVars, balanceVars, uiVars>>
exceptTokens == <<swapVars, chainVars, formatVars, balanceVars, uiVars>>
exceptBalances == <<swapVars, chainVars, formatVars, tokensVars, uiVars>>
exceptChat == <<swapVars, providerVars, pollingVars, signVars>>
exceptPolling == <<swapVars, providerVars, chatVars, signVars>>
exceptSign == <<swapVars, providerVars, chatVars, pollingVars>>
\* the variables of a balance pass, without state.balances
passVars == <<kpc, kcall, krpc, ktokens, queried, newBalances>>
exceptWallet == <<swapVars, chainVars, formatVars, tokensVars, chatVars, signVars>>
exceptDisconnect == <<exceptWallet, passVars>>

\* the catalog, one caller at a time, with every answer of the endpoint
Next ==
    \/ GetTokensCall(1) /\ UNCHANGED exceptCatalog
    \/ \E resp \in Responses : FetchSettles(1, resp) /\ UNCHANGED exceptCatalog
    \/ Return(1) /\ UNCHANGED exceptCatalog
    \/ \E d \in TickSteps : Tick(d) /\ UNCHANGED exceptCatalog

Spec == Init /\ [][Next]_vars

\* callers whose calls overlap
NextConcurrent ==
    \/ \E c \in Callers : GetTokensCall(c) /\ UNCHANGED exceptCatalog
    \/ \E c \in Callers, resp \in FewResponses :
           FetchSettles(c, resp) /\ UNCHANGED exceptCatalog
    \/ \E c \in Callers : Return(c) /\ UNCHANGED exceptCatalog
    \/ \E d \in TickSteps : Tick(d) /\ UNCHANGED exceptCatalog

SpecConcurrent == Init /\ [][NextConcurrent]_vars

\* one call of getSwapQuote after another
NextQuote ==
    \/ \E tokenIn \in TokenArgs, tokenOut \in TokenArgs,
          recipientId \in RecipientArgs :
           GetSwapQuoteCall(tokenIn, tokenOut, recipientId)
              /\ UNCHANGED exceptQuote
    \/ \E resp \in QuoteResponses :
           QuoteFetchSettles(resp) /\ UNCHANGED exceptQuote
    \/ BackoffElapses /\ UNCHANGED exceptQuote
    \/ QuoteReturn /\ UNCHANGED exceptQuote

SpecQuote == Init /\ [][NextQuote]_vars

\* one call of isCrossChainSwap after another, while the clock advances
NextCrossChain ==
    \/ \E tokenIn \in CrossArgs, tokenOut \in CrossArgs :
           IsCrossChainSwapCall(tokenIn, tokenOut) /\ UNCHANGED exceptCrossChain
    \/ \E resp \in CrossResponses :
           FetchSettles(1, resp) /\ UNCHANGED exceptCatalog
    \/ IsCrossChainSwapResumes /\ UNCHANGED exceptCrossChain
    \/ CrossChainReturn /\ UNCHANGED <<catalogVars, exceptCrossChain>>
    \/ \E d \in TickSteps : Tick(d) /\ UNCHANGED exceptCatalog

SpecCrossChain == Init /\ [][NextCrossChain]_vars

\* one call of createNearIntentTransaction after another
NextBuilder ==
    \/ \E tokenIn \in TokenInArgs, tokenOut \in TokenOutArgs,
          amount \in AmountArgs, minAmountOut \in MinAmountOutArgs,
          depositAddress \in DepositAddressArgs :
           BuildCall(tokenIn, tokenOut, amount, minAmountOut, depositAddress)
              /\ UNCHANGED exceptBuilder
    \/ BuildReturn /\ UNCHANGED exceptBuilder

SpecBuilder == Init /\ [][NextBuilder]_vars

\* one call of walletTypeToChain after another
NextChain ==
    \/ \E type \in TypeArgs : ResolveCall(type) /\ UNCHANGED exceptChain
    \/ ResolveReturn /\ UNCHANGED exceptChain

SpecChain == Init /\ [][NextChain]_vars

\* one call of formatBalanceManual after another
NextFormat ==
    \/ \E balance \in BalanceArgs, decimals \in DecimalsArgs :
           FormatCall(balance, decimals) /\ UNCHANGED exceptFormat
    \/ FormatReturn /\ UNCHANGED exceptFormat

SpecFormat == Init /\ [][NextFormat]_vars

\* one call of fetchAllTokens after another
NextTokens ==
    \/ FetchAllTokensCall /\ UNCHANGED exceptTokens
    \/ \E resp \in PrimaryResponses :
           PrimarySettles(resp) /\ UNCHANGED exceptTokens
    \/ \E resp \in SecondaryResponses :
           SecondarySettles(resp) /\ UNCHANGED exceptTokens
    \/ \E outcomes \in QueryOutcomeLists(LikelyTokens(tsecondary)) :
           QueriesSettle(outcomes) /\ UNCHANGED exceptTokens
    \/ TokensReturn /\ UNCHANGED exceptTokens

SpecTokens == Init /\ [][NextTokens]_vars

\* one pass of fetchBalancesFromKit after another
NextBalances ==
    \/ \E near \in BOOLEAN, kit \in KitArgs :
           FetchBalancesCall(near, kit) /\ UNCHANGED exceptBalances
    \/ \E outcome \in RpcOutcomes :
           RpcSettles(outcome) /\ UNCHANGED exceptBalances
    \/ \E tokens \in TokenLists :
           TokensSettle(tokens) /\ UNCHANGED exceptBalances
    \/ PassReturn /\ UNCHANGED exceptBalances

SpecBalances == Init /\ [][NextBalances]_vars

\* the user sends messages and resets the chat while requests are in flight
NextChat ==
    \/ \E hasText \in BOOLEAN : HandleSend(hasText) /\ UNCHANGED exceptChat
    \/ \E controller \in 1..MaxRequests, outcome \in ChatOutcomes :
           ChatSettles(controller, outcome) /\ UNCHANGED exceptChat
    \/ ResetChat /\ UNCHANGED exceptChat
    \/ Render /\ UNCHANGED exceptChat

SpecChat == Init /\ [][NextChat]_vars

\* the chat when every fetch settles in the end, with an answer or an error
SpecChatSettling ==
    /\ SpecChat
    /\ \A controller \in 1..MaxRequests :
          WF_vars(\E outcome \in ChatOutcomes :
                     ChatSettles(controller, outcome) /\ UNCHANGED exceptChat)

\* wallets come and go while the provider polls
NextPolling ==
    \/ \E restored \in SUBSET KitWallets :
           connectWallet(restored) /\ UNCHANGED exceptPolling
    \/ ConnectReturns /\ UNCHANGED exceptPolling
    \/ \E wallet \in KitWallets : KitConnects(wallet) /\ UNCHANGED exceptPolling
    \/ \E wallet \in KitWallets : KitDisconnects(wallet) /\ UNCHANGED exceptPolling
    \/ \E remaining \in SUBSET KitWallets :
           disconnect(remaining) /\ UNCHANGED exceptDisconnect
    \/ Poll /\ UNCHANGED exceptPolling
    \/ Unmount /\ UNCHANGED exceptPolling

SpecPolling == Init /\ [][NextPolling]_vars

\* payloads are signed, by wallets with and without a batch method
NextSign ==
    \/ \E lookup \in LookupArgs, methods \in MethodArgs, payload \in PayloadArgs :
           SignCall(lookup, methods, payload) /\ UNCHANGED exceptSign
    \/ \E outcome \in WalletOutcomes :
           SequentialSettles(outcome) /\ UNCHANGED exceptSign
    \/ \E outcome \in WalletOutcomes, count \in -1..MaxBatch :
           BatchSettles(outcome, count) /\ UNCHANGED exceptSign
    \/ \E outcome \in WalletOutcomes : SingleSettles(outcome) /\ UNCHANGED exceptSign
    \/ SignReturn /\ UNCHANGED exceptSign

SpecSign == Init /\ [][NextSign]_vars

\* a wallet connects, its balances are fetched, and it disconnects while
\* the pass is in flight
NextWallet ==
    \/ \E restored \in RestoredArgs, kit \in WalletKitArgs :
           ConnectFetches(restored, kit) /\ UNCHANGED exceptWallet
    \/ \E kit \in WalletKitArgs :
           ConnectReturnsFetches(kit) /\ UNCHANGED exceptWallet
    \/ \E outcome \in WalletRpcOutcomes :
           RpcSettles(outcome) /\ UNCHANGED <<exceptWallet, pollingVars>>
    \/ \E tokens \in WalletTokenLists :
           TokensSettle(tokens) /\ UNCHANGED <<exceptWallet, pollingVars>>
    \/ PassReturn /\ UNCHANGED <<exceptWallet, pollingVars>>
    \/ \E remaining \in SUBSET KitWallets :
           disconnect(remaining) /\ UNCHANGED exceptDisconnect

SpecWallet == Init /\ [][NextWallet]_vars

(***************************************************************************)
(* Properties of the catalog cache.                                        *)
(***************************************************************************)
SixHours == 6 * 60 * 60 * 1000

\* a snapshot is cached and younger than six hours
SnapshotWithinTTL ==
    /\ ~tokenCache.isNull
    /\ ~cacheTimestamp.isNull
    /\ now - cacheTimestamp.v < SixHours

\* caller c makes its call in this step
CallStep(c) == pc[c] = "idle" /\ pc'[c] # "idle"

\* caller c's fetch settles in this step and its call ends
SettleStep(c) == pc[c] = "fetching" /\ pc'[c] = "done"

\* the symbol under which an entry is deduplicated
SymbolKey(item) ==
    LET upper == toUpperCase(item.symbol.v)
    IN IF upper \in {sNEAR, sWNEAR} THEN sNEAR ELSE upper

\* the entry has a non-empty assetId and a non-empty symbol
Usable(item) == Truthy(item.assetId) /\ Truthy(item.symbol)

\* a refresh that got this answer failed or produced the empty set
RefreshFailed(resp) ==
    \/ resp.kind \in {"transport", "status", "object"}
    \/ /\ resp.kind = "array"
       /\ \/ \A k \in 1..Len(resp.body) : ~Usable(resp.body[k])
          \/ \E k \in 1..Len(resp.body) :
                 Usable(resp.body[k]) /\ resp.body[k].symbol.t # "string"

\* caller c's call has ended with a refresh that succeeded
Refreshed(c) ==
    /\ pc[c] = "done" /\ fetched[c]
    /\ response[c].kind = "array" /\ ~RefreshFailed(response[c])

\* the indexes of the entries of body that survive: usable, and no earlier
\* usable entry has the same symbol (folded, upper-cased)
Kept(body) ==
    { k \in 1..Len(body) :
        /\ Usable(body[k])
        /\ \A j \in 1..(k - 1) :
               ~(Usable(body[j]) /\ SymbolKey(body[j]) = SymbolKey(body[k])) }

\* the i-th smallest member of a set of numbers
NthOf(S, i) == CHOOSE k \in S : Cardinality({j \in S : j < k}) = i - 1

\* C1 as amended: a call made while a snapshot is cached and younger than six
\* hours issues no request, returns the cached entries and leaves the cache
\* alone; two such calls return identical entries unless the cache was
\* replaced between them (by a refresh already in flight).
C1_CachedCallNoRequest ==
    [][\A c \in Callers :
         (CallStep(c) /\ SnapshotWithinTTL) =>
            /\ pc'[c] = "done" /\ ~fetched'[c]
            /\ ret'[c] = Resolved(tokenCache.v)
            /\ tokenCache' = tokenCache /\ cacheTimestamp' = cacheTimestamp
            /\ (lastHit.valid /\ ~lastHit.replaced)
                  => ret'[c].tokens = lastHit.entries]_vars

\* C1 witness: two calls answered from the same snapshot, with equal entries
C1_Witness ==
    /\ pc[1] = "done" /\ pc[2] = "done"
    /\ ~fetched[1] /\ ~fetched[2]
    /\ ret[1].kind = "tokens" /\ ret[1] = ret[2]
    /\ ret[1].tokens = tokenCache.v

\* C1 as stated: ... two such calls within the TTL return identical entries.
C1_Original ==
    [][\A c \in Callers :
         (CallStep(c) /\ SnapshotWithinTTL) =>
            /\ pc'[c] = "done" /\ ~fetched'[c]
            /\ ret'[c] = Resolved(tokenCache.v)
            /\ tokenCache' = tokenCache /\ cacheTimestamp' = cacheTimestamp
            /\ (lastHit.valid /\ now - lastHit.fetchedAt < SixHours)
                  => ret'[c].tokens = lastHit.entries]_vars

\* C2: the cache is never partially updated: a step either leaves entries and
\* fetchedAt as they were, or a refresh writes both together, the entries
\* being the complete result of that refresh and fetchedAt the current time.
C2_CacheUpdatedWhole ==
    [][(tokenCache' # tokenCache \/ cacheTimestamp' # cacheTimestamp) =>
         \E c \in Callers :
            /\ SettleStep(c)
            /\ ~RefreshFailed(response'[c])
            /\ tokenCache' = Some(UniqueTokens(response'[c].body))
            /\ cacheTimestamp' = Some(now)
            /\ ret'[c] = Resolved(tokenCache'.v)]_vars

\* C2 witness: a refresh has replaced an older snapshot, entries and time
C2_Witness ==
    \E c \in Callers :
        /\ Refreshed(c)
        /\ ~seenTimestamp[c].isNull
        /\ tokenCache = Some(ret[c].tokens)
        /\ cacheTimestamp = Some(now)
        /\ cacheTimestamp.v > seenTimestamp[c].v

\* C3: when a refresh fails or produces the empty set and a snapshot exists
\* (even an expired one), the call returns that snapshot and the cache and
\* its timestamp stay as they were.
C3_StaleFallback ==
    [][\A c \in Callers :
         (SettleStep(c) /\ RefreshFailed(response'[c]) /\ ~tokenCache.isNull) =>
            /\ ret'[c] = Resolved(tokenCache.v)
            /\ tokenCache' = tokenCache
            /\ cacheTimestamp' = cacheTimestamp]_vars

\* C3 witness: a failed refresh answered from an expired snapshot
C3_Witness ==
    \E c \in Callers :
        /\ pc[c] = "done" /\ fetched[c] /\ RefreshFailed(response[c])
        /\ ~tokenCache.isNull
        /\ now - cacheTimestamp.v >= SixHours
        /\ ret[c] = Resolved(tokenCache.v)

\* C4: when a refresh fails or produces the empty set and no snapshot was ever
\* stored, the call fails with the catalog-unavailable error, the cache stays
\* absent (no entries, no fetchedAt), and a call made with no cache goes to
\* the network.
C4_NoCacheFails ==
    [][\A c \in Callers :
         /\ (SettleStep(c) /\ RefreshFailed(response'[c]) /\ tokenCache.isNull) =>
               /\ ret'[c].kind = "error"
               /\ Len(ret'[c].message) = 2
               /\ ret'[c].message[1] = "Can't get supported tokens: "
               /\ tokenCache' = NullCache
               /\ cacheTimestamp' = NullTime
         /\ (CallStep(c) /\ tokenCache.isNull) =>
               (pc'[c] = "fetching" /\ fetched'[c])]_vars

\* C4 witness: a call has failed with no cache, and the cache is still absent
C4_Witness ==
    \E c \in Callers :
        /\ pc[c] = "done" /\ fetched[c] /\ RefreshFailed(response[c])
        /\ ret[c].kind = "error"
        /\ tokenCache = NullCache /\ cacheTimestamp = NullTime

\* the descriptors made from the usable entries of an answer
DescriptorsOf(body) == { MakeToken(body[k]) : k \in Kept(body) }

\* C5 as amended: when a call made after the TTL elapsed refreshes with
\* success, fetchedAt becomes strictly larger than the value the call found
\* (and not smaller than the value it replaces), and the cache holds exactly
\* the refreshed set: every entry comes from the new answer.
C5_RefreshReplaces ==
    [][\A c \in Callers :
         (SettleStep(c) /\ ~seenTimestamp[c].isNull
                        /\ ~RefreshFailed(response'[c])) =>
            /\ cacheTimestamp'.v > seenTimestamp[c].v
            /\ cacheTimestamp'.v >= cacheTimestamp.v
            /\ Len(tokenCache'.v) = Cardinality(DescriptorsOf(response'[c].body))
            /\ \A i \in 1..Len(tokenCache'.v) :
                   tokenCache'.v[i] \in DescriptorsOf(response'[c].body)]_vars

\* C5 witness: a refresh after expiry has replaced a snapshot by a different one
C5_Witness ==
    \E c \in Callers :
        /\ Refreshed(c)
        /\ ~seenTimestamp[c].isNull
        /\ now - seenTimestamp[c].v >= SixHours
        /\ cacheTimestamp.v > seenTimestamp[c].v
        /\ tokenCache = Some(ret[c].tokens)
        /\ lastHit.valid /\ lastHit.replaced
        /\ \A i \in 1..Len(lastHit.entries) :
               \A j \in 1..Len(tokenCache.v) :
                   lastHit.entries[i] # tokenCache.v[j]

\* C5 as stated: ... fetchedAt becomes strictly larger than its previous value.
C5_Original ==
    [][\A c \in Callers :
         (SettleStep(c) /\ ~seenTimestamp[c].isNull
                        /\ ~RefreshFailed(response'[c])) =>
            /\ cacheTimestamp'.v > cacheTimestamp.v
            /\ Len(tokenCache'.v) = Cardinality(DescriptorsOf(response'[c].body))
            /\ \A i \in 1..Len(tokenCache'.v) :
                   tokenCache'.v[i] \in DescriptorsOf(response'[c].body)]_vars

\* C6: after a successful refresh the catalog has at most one descriptor per
\* upper-cased symbol, and for each symbol it is the descriptor of the first
\* entry of the answer with that symbol (after folding WNEAR/NEAR to NEAR).
C6_FirstSeenWins ==
    \A c \in Callers :
        Refreshed(c) =>
            LET body == response[c].body
                cat == ret[c].tokens
            IN /\ tokenCache = Some(cat)
               /\ \A i, j \in 1..Len(cat) :
                      i # j => toUpperCase(cat[i].symbol) # toUpperCase(cat[j].symbol)
               /\ \A k \in 1..Len(body) :
                      Usable(body[k]) =>
                          \E i \in 1..Len(cat) :
                              /\ toUpperCase(cat[i].symbol) = SymbolKey(body[k])
                              /\ \E f \in 1..k :
                                    /\ Usable(body[f])
                                    /\ SymbolKey(body[f]) = SymbolKey(body[k])
                                    /\ \A e \in 1..(f - 1) :
                                           ~(Usable(body[e]) /\
                                             SymbolKey(body[e]) = SymbolKey(body[k]))
                                    /\ cat[i] = MakeToken(body[f])

\* C6 witness: an answer with two entries of one symbol left one descriptor
C6_Witness ==
    \E c \in Callers :
        /\ Refreshed(c)
        /\ Len(response[c].body) = 2
        /\ Usable(response[c].body[1]) /\ Usable(response[c].body[2])
        /\ response[c].body[1] # response[c].body[2]
        /\ SymbolKey(response[c].body[1]) = SymbolKey(response[c].body[2])
        /\ ret[c].tokens = <<MakeToken(response[c].body[1])>>

\* C7 as amended: in every descriptor of the cache WNEAR and NEAR (in any
\* case) are folded to "NEAR"; any other symbol is stored as the endpoint
\* spelled it, not upper-cased.
C7_SymbolFolded ==
    /\ ~tokenCache.isNull =>
          \A i \in 1..Len(tokenCache.v) :
              toUpperCase(tokenCache.v[i].symbol) \in {sNEAR, sWNEAR}
                  => tokenCache.v[i].symbol = sNEAR
    /\ \A c \in Callers :
          Refreshed(c) =>
              \A i \in 1..Len(ret[c].tokens) :
                  \/ ret[c].tokens[i].symbol = sNEAR
                  \/ \E k \in 1..Len(response[c].body) :
                        /\ Usable(response[c].body[k])
                        /\ ret[c].tokens[i].symbol = response[c].body[k].symbol.v

\* C7 witness: the cache holds NEAR folded from wNEAR and a lower-case symbol
C7_Witness ==
    \E c \in Callers :
        /\ Refreshed(c)
        /\ Len(tokenCache.v) = 2
        /\ response[c].body[1].symbol.v = <<"w","N","E","A","R">>
        /\ tokenCache.v[1].symbol = sNEAR
        /\ tokenCache.v[2].symbol = <<"u","s","d","c">>

\* C7 as stated: every descriptor of the cache has an upper-case symbol, with
\* WNEAR and NEAR folded to "NEAR".
C7_Original ==
    ~tokenCache.isNull =>
        \A i \in 1..Len(tokenCache.v) :
            /\ tokenCache.v[i].symbol = toUpperCase(tokenCache.v[i].symbol)
            /\ tokenCache.v[i].symbol # sWNEAR

\* the entry carries the field (undefined, null and "" count as missing)
Carries(x) == Truthy(x)

\* C8 as amended: the refreshed catalog holds, in order, the descriptors of
\* exactly the entries that carry a non-empty assetId and a non-empty symbol
\* and are not later duplicates of such an entry's symbol; an entry missing
\* either field is excluded.
C8_UsableEntriesIncluded ==
    \A c \in Callers :
        Refreshed(c) =>
            LET body == response[c].body
                cat == ret[c].tokens
            IN /\ Len(cat) = Cardinality(Kept(body))
               /\ \A i \in 1..Len(cat) :
                      cat[i] = MakeToken(body[NthOf(Kept(body), i)])
               /\ \A k \in Kept(body) :
                      Carries(body[k].assetId) /\ Carries(body[k].symbol)

\* C8 witness: of two entries, one without assetId, only the other is included
C8_Witness ==
    \E c \in Callers :
        /\ Refreshed(c)
        /\ Len(response[c].body) = 2
        /\ ~Carries(response[c].body[1].assetId)
        /\ ret[c].tokens = <<MakeToken(response[c].body[2])>>

\* C8 as stated: an entry is in the refreshed catalog if and only if it
\* carries both an assetId and a symbol.
C8_Original ==
    \A c \in Callers :
        Refreshed(c) =>
            LET body == response[c].body
                cat == ret[c].tokens
                carrying == { k \in 1..Len(body) :
                                Carries(body[k].assetId) /\ Carries(body[k].symbol) }
            IN /\ Len(cat) = Cardinality(carrying)
               /\ \A i \in 1..Len(cat) :
                      cat[i] = MakeToken(body[NthOf(carrying, i)])

(***************************************************************************)
(* Properties of getSwapQuote.                                             *)
(***************************************************************************)
ExpectedWaits == <<1000, 2000, 4000, 8000, 10000, 10000, 10000>>

\* the quote endpoint failed transiently: a transport error or a non-2xx status
TransientFailure(resp) ==
    resp.net = "rejected" \/ (resp.net = "arrived" /\ ~resp.ok)

\* the error text of a transient failure
TransientErrorText(resp) ==
    IF resp.net = "rejected" THEN "fetch failed" ELSE "HTTP 500"

\* C9: after failed attempt number n the call waits min(1000 * 2^(n-1), 10000)
\* ms before the next attempt: the waits are 1s, 2s, 4s, 8s, 10s, 10s, 10s in
\* that order, one between any two requests, and a call that succeeds on its
\* 8th attempt has waited exactly these seven.
C9_BackoffSchedule ==
    /\ Len(delays) <= 7
    /\ \A n \in 1..Len(delays) :
           /\ delays[n] = ExpectedWaits[n]
           /\ delays[n] = IF 1000 * 2 ^ (n - 1) <= 10000
                          THEN 1000 * 2 ^ (n - 1) ELSE 10000
    /\ qpc = "sleeping" => Len(delays) = attempt
    /\ qpc = "awaiting" => (Len(delays) = attempt - 1 /\ requests = attempt)
    /\ (qpc = "done" /\ quoteResult.kind = "quote" /\ requests = 8)
          => delays = ExpectedWaits

\* C9 witness: seven failures, then a quote on the 8th attempt
C9_Witness ==
    /\ qpc = "done"
    /\ quoteResult.kind = "quote"
    /\ requests = 8
    /\ delays = ExpectedWaits

\* C10: a call never sends more than 8 requests; when the 8th attempt fails
\* transiently too, the call ends with the quote-unavailable error carrying
\* that last attempt's error, and no wait follows the 8th failure.
C10_EightAttempts ==
    /\ requests <= 8
    /\ attempt <= 8
    /\ ~(qpc = "sleeping" /\ attempt >= 8)
    /\ (qpc = "done" /\ requests = 8 /\ TransientFailure(quoteResponse)) =>
          /\ quoteResult =
                QuoteError(<<"Unable to fetch quote after 8 attempts: ",
                             TransientErrorText(quoteResponse)>>)
          /\ Len(delays) = 7

\* C10 witness: eight transient failures, the first of another kind than the last
C10_Witness ==
    /\ qpc = "done"
    /\ requests = 8
    /\ TransientFailure(quoteResponse)
    /\ quoteResult.kind = "error"
    /\ Len(quoteResult.error) = 2
    /\ quoteResult.error[2] = "HTTP 500"
    /\ Len(delays) = 7

\* a 2xx response whose JSON body carries a non-empty message field
MessageResponse(resp) ==
    resp.net = "arrived" /\ resp.ok /\ resp.body = "message"

\* the call has ended with the given error and sends nothing more
EndedWith(msg) ==
    /\ qpc = "done"
    /\ quoteResult = QuoteError(msg)

\* C11 as amended: whenever a 2xx response of the quote endpoint carries a
\* non-empty message field, getSwapQuote ends at once, whatever the attempt
\* number: it returns that message as the error, sends no further request and
\* waits no further delay.  (A non-2xx response is a transient failure whatever
\* its body.)
C11_MessageTerminal ==
    MessageResponse(quoteResponse) =>
        /\ EndedWith(<<"data.message">>)
        /\ requests = attempt
        /\ Len(delays) = attempt - 1

\* C11 witness: the 3rd attempt is answered 2xx with a message and ends the call
C11_Witness ==
    /\ MessageResponse(quoteResponse)
    /\ attempt = 3
    /\ requests = 3
    /\ EndedWith(<<"data.message">>)

\* C11 as stated: a response carrying a message field ends the call with that
\* message whatever its HTTP status.
C11_Original ==
    (quoteResponse.net = "arrived" /\ quoteResponse.body = "message") =>
        /\ EndedWith(<<"data.message">>)
        /\ requests = attempt

\* a 2xx response without message and without deposit address
NoDepositResponse(resp) ==
    resp.net = "arrived" /\ resp.ok /\ resp.body = "nodeposit"

\* C12: a 2xx response with no message field and no deposit address ends
\* getSwapQuote with the error "No deposit address found in quote"; it is not
\* retried: no request and no wait follows it.
C12_NoDepositTerminal ==
    NoDepositResponse(quoteResponse) =>
        /\ EndedWith(<<"No deposit address found in quote">>)
        /\ requests = attempt
        /\ Len(delays) = attempt - 1

\* C12 witness: after one transient failure the 2nd attempt is answered 2xx
\* without a deposit address
C12_Witness ==
    /\ NoDepositResponse(quoteResponse)
    /\ requests = 2
    /\ delays = <<1000>>
    /\ EndedWith(<<"No deposit address found in quote">>)

\* a further attempt of the call is pending or in flight
FurtherAttempt ==
    qpc = "sleeping" \/ (qpc = "awaiting" /\ requests > 1)

\* a 2xx response whose body cannot be read: response.json() rejects, or the
\* amountOut of the quote is no integer
UnreadableBody(resp) ==
    resp.net = "arrived" /\ resp.ok /\ resp.body \in {"unparsable", "badamount"}

\* C13 as amended: getSwapQuote issues a further attempt only after a failed
\* attempt, i.e. a transport error, a non-2xx status, or a 2xx response whose
\* body cannot be parsed as JSON or whose amountOut is no integer; once a 2xx
\* response with a message, without a deposit address or with a well-formed
\* quote has been received, the call sends no further request.
C13_RetryOnlyAfterFailure ==
    /\ FurtherAttempt =>
           (TransientFailure(quoteResponse) \/ UnreadableBody(quoteResponse))
    /\ (quoteResponse.net = "arrived" /\ quoteResponse.ok
            /\ ~UnreadableBody(quoteResponse)) =>
           (qpc = "done" /\ requests = attempt)

\* C13 witness: a second request is in flight after a 2xx response whose
\* amountOut was no integer
C13_Witness ==
    /\ qpc = "awaiting"
    /\ requests = 2
    /\ quoteResponse = QuoteResponse("arrived", TRUE, "badamount")

\* C13 as stated: a further attempt follows only a transport error or a
\* non-2xx status; after a 2xx response the call sends no further request.
C13_Original ==
    /\ FurtherAttempt => TransientFailure(quoteResponse)
    /\ (quoteResponse.net = "arrived" /\ quoteResponse.ok) =>
           (qpc = "done" /\ requests = attempt)

\* the symbols that have a routing asset id (constants.ts TOKEN_MAP keys)
RoutedSymbols ==
    { sNEAR, <<"E","T","H">>, <<"U","S","D","C">>, <<"U","S","D","T">>,
      <<"W","B","T","C">>, <<"A","U","R","O","R","A">> }

\* the symbol, upper-cased, resolves to a known routing asset id
Routed(symbol) == toUpperCase(symbol) \in RoutedSymbols

\* C14: when tokenIn or tokenOut does not resolve to a known routing asset id
\* getSwapQuote returns the unsupported-pair error; otherwise, when the
\* recipient is empty, it returns the wallet-required error; in both cases no
\* request is sent to the quote endpoint.  Otherwise the first request is sent.
C14_ArgumentsRefused ==
    qpc # "idle" =>
        IF ~Routed(qargs.tokenIn) \/ ~Routed(qargs.tokenOut)
        THEN /\ EndedWith(<<"Token pair ", toUpperCase(qargs.tokenIn), "->",
                            toUpperCase(qargs.tokenOut), " not supported">>)
             /\ requests = 0
             /\ attempt = 0
        ELSE IF qargs.recipientId = ""
        THEN /\ EndedWith(<<"Wallet must be connected to fetch a quote">>)
             /\ requests = 0
             /\ attempt = 0
        ELSE requests >= 1

\* C14 witness: a supported pair without recipient is refused before any request
C14_Witness ==
    /\ Routed(qargs.tokenIn)
    /\ Routed(qargs.tokenOut)
    /\ qargs.tokenIn # <<>>
    /\ qargs.recipientId = ""
    /\ EndedWith(<<"Wallet must be connected to fetch a quote">>)
    /\ requests = 0

\* the cache and its timestamp are both null or both set
CachePaired == tokenCache.isNull <=> cacheTimestamp.isNull

\* a cache that is set stays set and non-empty, and its timestamp does not
\* go back
CacheKept ==
    ~tokenCache.isNull =>
        /\ ~tokenCache'.isNull
        /\ tokenCache'.v # <<>>
        /\ ~cacheTimestamp'.isNull
        /\ cacheTimestamp'.v >= cacheTimestamp.v

\* C39: in every state the catalog cache and its timestamp are both absent
\* or both present, a cache that is present is not empty, and once present the
\* cache is never absent or empty again and its timestamp never decreases.
C39_CacheMonotone ==
    /\ [](CachePaired /\ (~tokenCache.isNull => tokenCache.v # <<>>))
    /\ [][CacheKept]_vars

\* C39 witness: of two concurrent refreshes the first filled the cache at a
\* later time than the start and the second failed and got the cache
C39_Witness ==
    /\ ~tokenCache.isNull /\ ~cacheTimestamp.isNull
    /\ cacheTimestamp.v > StartTime
    /\ \E c \in Callers :
          /\ pc[c] = "done" /\ response[c] \in Failures
          /\ ret[c] = Resolved(tokenCache.v)

(***************************************************************************)
(* Properties of isCrossChainSwap.                                         *)
(***************************************************************************)
\* the catalog holds a token of that symbol, compared in upper case
InCatalog(symbol, catalog) ==
    \E i \in 1..Len(catalog) :
        toUpperCase(catalog[i].symbol) = toUpperCase(symbol)

\* the chain labels the catalog gives for that symbol
ChainLabels(symbol, catalog) ==
    { catalog[i].blockchain :
        i \in { k \in 1..Len(catalog) :
                  toUpperCase(catalog[k].symbol) = toUpperCase(symbol) } }

\* C15: isCrossChainSwap never raises; it returns false whenever the catalog
\* cannot be obtained or either token is missing from it, and returns true only
\* when both tokens are found and their chain labels differ.
C15_MissIsSameChain ==
    xpc = "returned" =>
        /\ xresult.kind = "value"
        /\ xawaited.kind = "error" => xresult.value = FALSE
        /\ (xawaited.kind = "tokens"
              /\ (~InCatalog(xargs.tokenIn, xawaited.tokens)
                    \/ ~InCatalog(xargs.tokenOut, xawaited.tokens)))
             => xresult.value = FALSE
        /\ xresult.value = TRUE =>
              /\ xawaited.kind = "tokens"
              /\ InCatalog(xargs.tokenIn, xawaited.tokens)
              /\ InCatalog(xargs.tokenOut, xawaited.tokens)
              /\ ChainLabels(xargs.tokenIn, xawaited.tokens)
                   # ChainLabels(xargs.tokenOut, xawaited.tokens)

\* C15 witness: the catalog cannot be obtained and the call returns false
C15_Witness ==
    /\ xpc = "returned"
    /\ xawaited.kind = "error"
    /\ xresult = Returns(FALSE)

\* a call that finds both tokens on different chains returns true
C15_WitnessTrue ==
    /\ xpc = "returned"
    /\ xresult = Returns(TRUE)
    /\ xargs.tokenIn = sNear

\* a call that misses a token in an obtained catalog returns false
C15_WitnessMiss ==
    /\ xpc = "returned"
    /\ xawaited.kind = "tokens"
    /\ ~InCatalog(xargs.tokenIn, xawaited.tokens)
    /\ xresult = Returns(FALSE)

\* the chain label, in lower case, of the first catalog token of that symbol
LabelOf(symbol, catalog) ==
    LET first == CHOOSE i \in 1..Len(catalog) :
                    /\ toUpperCase(catalog[i].symbol) = toUpperCase(symbol)
                    /\ \A j \in 1..(i - 1) :
                          toUpperCase(catalog[j].symbol) # toUpperCase(symbol)
    IN toLowerCase(catalog[first].blockchain)

\* the labels that stand for near: near itself, aurora, and no label
NearLabels == { sNear, sAurora, <<>> }

\* both tokens of the call are in the catalog it obtained
BothFound ==
    /\ xpc = "returned" /\ xawaited.kind = "tokens"
    /\ InCatalog(xargs.tokenIn, xawaited.tokens)
    /\ InCatalog(xargs.tokenOut, xawaited.tokens)

\* C33: aurora is folded into near before the comparison: for two catalog
\* tokens whose chains are each near or aurora the result is false, and a
\* token without a chain label counts as a token on near, so the result with
\* it is true exactly when the other token is on another chain than near.
C33_AuroraIsNear ==
    BothFound =>
        LET chainIn == LabelOf(xargs.tokenIn, xawaited.tokens)
            chainOut == LabelOf(xargs.tokenOut, xawaited.tokens)
        IN  /\ (chainIn \in NearLabels /\ chainOut \in NearLabels)
                  => xresult = Returns(FALSE)
            /\ (chainIn \in NearLabels /\ chainOut \notin NearLabels)
                  => xresult = Returns(TRUE)
            /\ (chainIn \notin NearLabels /\ chainOut \in NearLabels)
                  => xresult = Returns(TRUE)

\* C33 witness: a token on aurora against a token on near gives false
C33_Witness ==
    /\ BothFound
    /\ LabelOf(xargs.tokenIn, xawaited.tokens) = sAurora
    /\ LabelOf(xargs.tokenOut, xawaited.tokens) = sNear
    /\ xresult = Returns(FALSE)

\* the entry of the endpoint for the token had no chain label, and the call
\* with a token on eth gives true
C33_WitnessUnlabelled ==
    /\ BothFound
    /\ \E resp \in CrossResponses :
          /\ resp.kind = "array"
          /\ UniqueTokens(resp.body) = xawaited.tokens
          /\ \E i \in 1..Len(resp.body) :
                /\ toUpperCase(resp.body[i].symbol.v) = toUpperCase(xargs.tokenIn)
                /\ resp.body[i].blockchain = Undefined
    /\ LabelOf(xargs.tokenOut, xawaited.tokens) = <<"e","t","h">>
    /\ xresult = Returns(TRUE)

(***************************************************************************)
(* Properties of createNearIntentTransaction.                              *)
(***************************************************************************)
\* the call has returned a batch
Built == bpc = "built" /\ bresult.kind = "batch"

\* tokenIn names the native asset
NativeInput == toLowerCase(bargs.tokenIn) = sNear

\* the method names of a batch entry, in order
Methods(entry) ==
    [i \in 1..Len(entry.actions) |-> entry.actions[i].params.methodName]

\* C16: for a NEAR input the first entry of the batch targets wrap.near with
\* exactly the three actions storage_deposit, near_deposit, ft_transfer_call
\* in that order, and a second entry follows that targets intents.near.
C16_NativeOrder ==
    (Built /\ NativeInput) =>
        LET batch == bresult.transactions
        IN /\ Len(batch) >= 2
           /\ batch[1].receiverId = sWrapNear
           /\ Methods(batch[1]) =
                 <<"storage_deposit", "near_deposit", "ft_transfer_call">>
           /\ batch[1].actions[1].params.args.account_id = sIntentsNear
           /\ batch[1].actions[3].params.args.receiver_id = sIntentsNear
           /\ batch[2].receiverId = sIntentsNear

\* C16 witness: a batch built for "Near"
C16_Witness ==
    /\ Built
    /\ bargs.tokenIn = <<"N","e","a","r">>
    /\ Len(bresult.transactions[1].actions) = 3

\* the contract of a token that is routed: its routing asset id without the
\* "nep141:" prefix
RoutedContract(symbol) ==
    LET id == TOKEN_MAP(toUpperCase(symbol))
    IN SubSeq(id, Len(sNep141) + 1, Len(id))

C19_FailsOnUnknownToken ==
    (bpc = "built" /\ bargs.amount # NaN) =>
        (bresult.kind = "thrown" <=> ~Routed(bargs.tokenIn))

\* the batch the builder returns for these arguments, if it returns one
BatchFor(tokenIn, tokenOut, amount, minAmountOut, depositAddress) ==
    createNearIntentTransaction(tokenIn, tokenOut, amount, minAmountOut,
                                depositAddress)

\* C20: the batch does not depend on tokenOut nor on the minimum out: a call
\* with the same tokenIn, amount and depositAddress and any other tokenOut and
\* minimum returns the identical batch, and every gas and deposit value other
\* than the wrap deposit is one of the fixed constants.
C20_IndependentOfTokenOut ==
    bpc = "built" =>
        /\ \A tokenOut \in TokenOutArgs, minAmountOut \in MinAmountOutArgs :
               BatchFor(bargs.tokenIn, tokenOut, bargs.amount, minAmountOut,
                        bargs.depositAddress) = bresult
        /\ \A i \in 1..Len(bresult.transactions) :
               \A k \in 1..Len(bresult.transactions[i].actions) :
                   LET p == bresult.transactions[i].actions[k].params
                   IN /\ p.gas \in {"30000000000000", "10000000000000",
                                    "50000000000000"}
                      /\ p.methodName # "near_deposit" =>
                            p.deposit \in {sOne, sStorageDeposit}

\* C20 witness: a batch built for tokenOut "doge" and a non-zero minimum
C20_Witness ==
    /\ Built
    /\ bargs.tokenOut = <<"d","o","g","e">>
    /\ bargs.minAmountOut = 4
    /\ bargs.tokenIn = <<"U","S","D","C">>

\* the amount of the settlement leg, the last entry of the batch
SettledAmount ==
    bresult.transactions[Len(bresult.transactions)].actions[1].params.args.amount

\* C34: every leg of a batch carries the same atomic amount: for a NEAR input
\* the deposit of near_deposit, the amount of ft_transfer_call and the amount
\* of mt_transfer are equal; for any other input the amount of
\* ft_transfer_call equals the amount of mt_transfer.
C34_OneAmount ==
    Built =>
        LET first == bresult.transactions[1].actions
        IN  IF NativeInput
            THEN /\ first[2].params.deposit = SettledAmount
                 /\ first[3].params.args.amount = SettledAmount
            ELSE first[1].params.args.amount = SettledAmount

\* C34 witness: 1 NEAR is wrapped, deposited and settled as the same 24
\* digits (the double next to 10^24)
C34_Witness ==
    /\ Built /\ NativeInput /\ bargs.amount = 1
    /\ Len(SettledAmount) = 24 /\ SettledAmount[1] = "9"
    /\ bresult.transactions[1].actions[3].params.args.amount = SettledAmount
    /\ bresult.transactions[1].actions[2].params.deposit = SettledAmount

\* 5 USDC are transferred and settled as 5000000
C34_WitnessFungible ==
    /\ Built /\ ~NativeInput /\ bargs.amount = 5
    /\ SettledAmount = <<"5","0","0","0","0","0","0">>
    /\ bresult.transactions[1].actions[1].params.args.amount = SettledAmount

(***************************************************************************)
(* Properties of chain resolution.                                         *)
(***************************************************************************)
\* the call has a chain code that the numeric table knows
KnownCode ==
    /\ cpc = "resolved"
    /\ ~ToNumber(ctype).isNaN
    /\ ToNumber(ctype).n \in ChainCodes

\* C21: whenever the chain code is a known numeric id (given as a number or
\* as a numeric string) the label of the table is returned, by the table: 8453
\* gives "base" and -6 gives "btc"; a substring heuristic answers only when
\* no numeric code matches.
C21_NumericFirst ==
    /\ KnownCode =>
          /\ cresult = Resolution(ChainTable(ToNumber(ctype).n), "table")
          /\ cresult.label # <<>>
    /\ (cpc = "resolved" /\ ToNumber(ctype) = Finite(8453)) =>
          cresult.label = <<"b","a","s","e">>
    /\ (cpc = "resolved" /\ ToNumber(ctype) = Finite(0 - 6)) =>
          cresult.label = <<"b","t","c">>
    /\ (cpc = "resolved" /\ cresult.via = "heuristic") => ~KnownCode

\* C21 witness: the code 8453, a number, has been resolved to "base"
C21_Witness ==
    /\ cpc = "resolved"
    /\ ctype = Num(<<"8","4","5","3">>)
    /\ cresult.label = <<"b","a","s","e">>

\* a heuristic has answered a code that is not a known numeric id
C21_WitnessHeuristic ==
    /\ cpc = "resolved"
    /\ ctype = Str(<<"N","E","A","R","-","w","a","l","l","e","t">>)
    /\ cresult = Resolution(<<"n","e","a","r">>, "heuristic")

\* the call matches neither the numeric table nor a substring heuristic
Unmatched == cpc = "resolved" /\ cresult.via = "string"

\* C22 as stated: a chain code that matches neither the numeric table nor a
\* string heuristic resolves to its string form, lower-cased.
C22_FallbackLowerCased ==
    Unmatched => cresult.label = toLowerCase(StringOf(ctype))

\* what the code does with such a chain code: the string form as it was given
C22_FallbackAsGiven ==
    Unmatched => cresult.label = StringOf(ctype)

\* an unmatched name with an upper-case letter has been resolved
C22_Witness ==
    /\ Unmatched
    /\ ctype = Str(<<"P","o","l","y","g","o","n">>)
    /\ cresult.label = <<"P","o","l","y","g","o","n">>

(***************************************************************************)
(* Properties of balance formatting.                                       *)
(***************************************************************************)
\* v div 10^d, then, only if non-zero, a dot and v mod 10^d left-padded to d
\* digits, cut to 8 digits and stripped of the zeros that end it
FormatExact(balance, decimals) ==
    LET val == BigOfString(balance)
        fixed == Fixed(val, BigTenTo(decimals), decimals, 8)
    IN IF val = <<>> THEN <<"0">>
       ELSE Then(fixed, TrimZeros(fixed))

\* C24 as stated: for every non-negative atomic value v and every decimals
\* d >= 0 formatBalanceManual returns v div 10^d followed (only if non-zero)
\* by a dot and v mod 10^d left-padded to d digits, cut to at most 8 digits
\* and stripped of trailing zeros; (12345, 4) gives "1.2345", (100000, 5)
\* gives "1" and 0 gives "0".
C24_FormatsExactly ==
    fpc = "formatted" => fresult = FormatExact(fargs.balance, fargs.decimals)

\* what holds of the code: the same, for decimals up to 22 (10^22 is the
\* largest power of ten that is a double), and the three examples
C24_ExactUpTo22 ==
    /\ (fpc = "formatted" /\ fargs.decimals <= 22) =>
          fresult = FormatExact(fargs.balance, fargs.decimals)
    /\ (fpc = "formatted" /\ fargs = [balance |-> IntString(12345), decimals |-> 4])
          => fresult = <<"1",".","2","3","4","5">>
    /\ (fpc = "formatted" /\ fargs = [balance |-> IntString(100000), decimals |-> 5])
          => fresult = <<"1">>
    /\ (fpc = "formatted" /\ fargs.balance = <<"0">>) => fresult = <<"0">>

\* 10^24 - 1 atomic units of a token of 24 decimals have been formatted to "1"
C24_Witness ==
    /\ fpc = "formatted"
    /\ fargs = [balance |-> [i \in 1..24 |-> "9"], decimals |-> 24]
    /\ fresult = <<"1">>
    /\ FormatExact(fargs.balance, fargs.decimals)
          = <<"0",".","9","9","9","9","9","9","9","9">>

(***************************************************************************)
(* Properties of the atomic conversion.                                    *)
(***************************************************************************)
\* a batch has been built for 5 units of the native asset, of 24 decimals
FiveNear ==
    /\ Built /\ NativeInput
    /\ bargs.amount = 5
    /\ DecimalsIn(bargs.tokenIn) = 24

\* the amount wrapped by near_deposit, the second action of the native leg
WrappedAmount == bresult.transactions[1].actions[2].params.deposit

\* C25 as stated: amount 5 with decimals 24 is converted to the atomic string
\* "5000000000000000000000000", in the built transaction and in the quote
\* request alike.
C25_ExactAtomic ==
    FiveNear =>
        /\ WrappedAmount = <<"5">> \o [i \in 1..24 |-> "0"]
        /\ QuoteAmountAtomic(sNEAR, 5) = <<"5">> \o [i \in 1..24 |-> "0"]

\* what the code computes: the double 5 * 10 ** 24, which is
\* 4999999999999999379243008, in both places
C25_DoubleAtomic ==
    FiveNear =>
        /\ WrappedAmount = IntString(49999999) \o IntString(99999999)
                              \o IntString(379243008)
        /\ bresult.transactions[1].actions[3].params.args.amount = WrappedAmount
        /\ bresult.transactions[2].actions[1].params.args.amount = WrappedAmount
        /\ QuoteAmountAtomic(sNEAR, 5) = WrappedAmount

\* 5 NEAR have been converted
C25_Witness == FiveNear /\ Len(WrappedAmount) = 25

(***************************************************************************)
(* Properties of token discovery.                                          *)
(***************************************************************************)
\* the FastNEAR answer is a transport error, a status other than 2xx, or a
\* body that is not an array (no JSON, or JSON of another kind)
PrimaryUnavailable ==
    \/ tprimary.kind \in {"error", "status"}
    \/ tprimary.kind = "ok" /\ tprimary.body.t # "array"

\* the FastNEAR answer is an array with an entry that formatBalance cannot
\* convert: a balance that is not an integer, or no decimals
PrimaryUnreadable ==
    /\ tprimary.kind = "ok" /\ tprimary.body.t = "array"
    /\ MapThrows(tprimary.body.v)

AskedSecondary == \E i \in 1..Len(asked) : asked[i] = "secondary"

\* C28 as amended: fetchAllTokens asks the secondary indexer only if the
\* primary answer is a transport error, a non-2xx status, a body that is not
\* an array, or an array with an entry whose balance or decimals cannot be
\* converted; when the primary array has been converted it is returned and
\* the secondary is not asked; and every call ends with a list.
C28_FallbackOnlyWhenUnusable ==
    /\ AskedSecondary => (PrimaryUnavailable \/ PrimaryUnreadable)
    /\ (tpc # "idle" /\ tpc # "primary" /\ ~AskedSecondary) =>
          /\ tpc = "done"
          /\ tresult = TokenList(MapEntries(tprimary.body.v))
    /\ tpc = "done" => tresult.kind = "list"
    /\ Len(asked) <= 2

\* C28 witness: FastNEAR answered with an array that has an unreadable entry,
\* Kitwallet has been asked, and the call ended with the token its query found
C28_Witness ==
    /\ tpc = "done"
    /\ PrimaryUnreadable
    /\ asked = <<"primary", "secondary">>
    /\ tresult.kind = "list" /\ Len(tresult.tokens) = 1

\* the call ended with [] after both endpoints failed
C28_WitnessBothFail ==
    /\ tpc = "done"
    /\ tprimary.kind = "error" /\ tsecondary.kind = "error"
    /\ tresult = TokenList(<<>>)

\* C28 as stated: the secondary indexer is asked only if the primary is
\* unavailable (transport error, non-2xx, or non-array body); and every call
\* ends with a list.
C28_Original ==
    /\ AskedSecondary => PrimaryUnavailable
    /\ tpc = "done" => tresult.kind = "list"

(***************************************************************************)
(* Properties of the balance map.                                          *)
(***************************************************************************)
\* digits, with at most one dot that has a digit on either side: a decimal
\* string without an exponent, and not empty
PlainDecimal(s) ==
    /\ s # <<>>
    /\ \A i \in 1..Len(s) : s[i] = "." \/ \E k \in 1..10 : Digits[k] = s[i]
    /\ Cardinality({ i \in 1..Len(s) : s[i] = "." }) <= 1
    /\ s[1] # "." /\ s[Len(s)] # "."

\* a plain decimal whose fraction, if it has one, does not end with a zero
TrimmedDecimal(s) ==
    /\ PlainDecimal(s)
    /\ (\E i \in 1..Len(s) : s[i] = ".") => s[Len(s)] # "0"

\* the entries the connector alone gives in this pass
ConnectorOnly == MergeConnector(EmptyMap, kcall.kit)

\* C23 as stated: every value of the balance map, whichever source wrote it,
\* is a decimal string without scientific notation, with trailing zeros
\* trimmed, and never empty.
C23_AllTrimmed ==
    \A k \in DOMAIN balances : TrimmedDecimal(balances[k])

\* what holds of the code: every value is a plain decimal, and the values
\* written by the native RPC and by the connector are trimmed
C23_PlainAndPartlyTrimmed ==
    /\ \A k \in DOMAIN balances : PlainDecimal(balances[k])
    /\ kpc = "tokens" => \A k \in DOMAIN newBalances : TrimmedDecimal(newBalances[k])
    /\ kpc = "done" => \A k \in DOMAIN ConnectorOnly : TrimmedDecimal(balances[k])

\* a discovered token is in the map with the zeros that end its fraction
C23_Witness ==
    /\ kpc = "done"
    /\ ktokens = MapEntries(<<UsdcEntry>>)
    /\ BalanceKey(sNEAR, <<"U","S","D","C">>) \in DOMAIN balances
    /\ balances[BalanceKey(sNEAR, <<"U","S","D","C">>)] = <<"1",".","5","0","0","0">>

\* C26: within one pass the connector's entries are applied last: every key
\* the connector gives has the connector's value in the pass's map and in
\* state.balances, also when the native RPC gave the same key; the other keys
\* of the pass have the value of the RPC or of the discovery.
C26_ConnectorWins ==
    kpc = "done" =>
        /\ \A k \in DOMAIN ConnectorOnly :
               /\ k \in DOMAIN newBalances /\ newBalances[k] = ConnectorOnly[k]
               /\ k \in DOMAIN balances /\ balances[k] = ConnectorOnly[k]
        /\ \A k \in (DOMAIN newBalances) \ (DOMAIN ConnectorOnly) :
               /\ krpc.kind = "result"
               /\ newBalances[k] = DiscoveryEntries(NativeEntries(krpc), ktokens)[k]
               /\ balances[k] = newBalances[k]

\* C26 witness: the RPC gave "[NEAR] NEAR" = "5", the connector "4.9" for the
\* same key, and the map holds "4.9"
C26_Witness ==
    /\ kpc = "done"
    /\ krpc.kind = "result" /\ Truthy(krpc.amount)
    /\ NativeEntries(krpc)[BalanceKey(sNEAR, sNEAR)] = <<"5">>
    /\ kcall.kit = KitTokens(<<KitNear>>)
    /\ ConnectorOnly[BalanceKey(sNEAR, sNEAR)] = <<"4",".","9">>
    /\ balances[BalanceKey(sNEAR, sNEAR)] = <<"4",".","9">>

Queried(source) == \E i \in 1..Len(queried) : queried[i] = source

\* C27 as stated: a failure of one source never blocks the others: in a pass
\* for a NEAR address the token discovery is asked even if the native RPC
\* query failed, and the connector's entries are merged.
C27_FailureNeverBlocks ==
    (kpc = "done" /\ kcall.near) =>
        /\ Queried("rpc") /\ Queried("discovery") /\ Queried("connector")
        /\ \A k \in DOMAIN ConnectorOnly : k \in DOMAIN balances

\* what holds of the code: after a failed RPC query the discovery is never
\* asked, and the connector's entries are merged; a failing connector leaves
\* the entries of the RPC and of the discovery
C27_RpcFailureSkipsDiscovery ==
    /\ (kpc = "done" /\ kcall.near /\ krpc.kind = "failed") =>
          /\ queried = <<"rpc", "connector">>
          /\ newBalances = ConnectorOnly
    /\ (kpc = "done" /\ kcall.near /\ krpc.kind = "result") =>
          queried = <<"rpc", "discovery", "connector">>
    /\ (kpc = "done" /\ kcall.kit = KitThrows /\ krpc.kind = "result") =>
          newBalances = DiscoveryEntries(NativeEntries(krpc), ktokens)

\* a pass whose RPC query failed has ended without asking the discovery
C27_Witness ==
    /\ kpc = "done" /\ kcall.near
    /\ krpc = RpcFailed
    /\ ~Queried("discovery")
    /\ kcall.kit = KitTokens(<<KitBaseUsdc, KitBsc>>)
    /\ DOMAIN newBalances = { BalanceKey(<<"B","A","S","E">>, <<"U","S","D","C">>),
                              BalanceKey(<<"B","N","B">>, <<"B","N","B">>) }

(***************************************************************************)
(* Properties of the chat.                                                 *)
(***************************************************************************)
\* the fetch of the request settles in this step
Settling(controller) == controller \in inFlight /\ controller \notin inFlight'

\* the request is superseded: the ref holds another controller, or none
\* after resetChat
Superseded(controller) ==
    controller \in inFlight /\ abortControllerRef # controller

\* C29: when the fetch of a superseded request settles, with an answer or
\* with an error, nothing is appended to the message list, and the loading
\* flag and the controller in the ref stay as they are.
C29_SupersededDiscarded ==
    [][\A controller \in 1..MaxRequests :
         (Settling(controller) /\ Superseded(controller)) =>
             UNCHANGED <<messages, isLoading, abortControllerRef>>]_vars

\* C29 witness: request 1 was superseded by request 2 and has settled; the
\* list has the two user messages only, and the flag and the ref are those of
\* request 2, still in flight
C29_Witness ==
    /\ created = 2
    /\ inFlight = {2} /\ 1 \in aborted
    /\ abortControllerRef = 2 /\ isLoading
    /\ messages = <<ChatMessage("user", 1), ChatMessage("user", 2)>>

(***************************************************************************)
(* Properties of balance polling.                                          *)
(***************************************************************************)
\* a wallet is connected and the provider is in the tree
WalletConnected == mounted /\ kitWallets # {}

\* C30: polling runs only while a wallet is connected: with no wallet left in
\* the connector, or the provider out of the tree, no interval is live and no
\* poll starts; and there is never more than one interval.
C30_PollsOnlyWhileConnected ==
    /\ timers <= 1
    /\ ~WalletConnected => timers = 0

\* what holds of C30: there is never more than one interval, and it is the
\* one the last run of the effect will clear
C30_AtMostOneTimer == timers = (IF cleanup THEN 1 ELSE 0)

\* what holds of C30: disconnect() and the teardown of the provider leave no
\* interval, and no poll starts while the state has no account
C30_ReleasedByDisconnect ==
    /\ ~mounted => timers = 0
    /\ accountId = NoAccount => timers = 0

\* the last wallet left the connector, which told its listeners, and the
\* interval is still live
C30_Witness ==
    /\ listening /\ kitWallets = {}
    /\ accountId # NoAccount /\ timers = 1
    /\ polls > 0

(***************************************************************************)
(* Concurrent refreshes of the catalog cache.                              *)
(***************************************************************************)
\* the lists a successful refresh produces: the deduplicated entries of an
\* answer the try block accepts
RefreshResults ==
    { UniqueTokens(resp.body) : resp \in { r \in FewResponses : TryError(r) = "" } }

\* C31: whatever the interleaving of the callers, a finished call has an error
\* or the whole non-empty list of one successful refresh, and the cache, once
\* set, is the whole list of one successful refresh, never parts of two.
C31_DuplicateRefreshBenign ==
    /\ \A c \in Callers :
          pc[c] = "done" =>
              \/ ret[c].kind = "error"
              \/ /\ ret[c].kind = "tokens"
                 /\ ret[c].tokens # <<>>
                 /\ ret[c].tokens \in RefreshResults
    /\ tokenCache.isNull \/ tokenCache.v \in RefreshResults

\* C31 witness: both callers saw no cache and both refreshed, with different
\* lists; the cache is the list of one of them
C31_Witness ==
    /\ \A c \in Callers :
          /\ pc[c] = "done" /\ fetched[c] /\ seenTimestamp[c].isNull
          /\ ret[c].kind = "tokens" /\ ret[c].tokens = UniqueTokens(response[c].body)
    /\ ret[1].tokens # ret[2].tokens
    /\ tokenCache.v = ret[1].tokens

(***************************************************************************)
(* Properties of signAndSendTransaction.                                   *)
(***************************************************************************)
\* the entries handed to the wallet so far, one per call
OneByOne == [i \in 1..Len(submitted) |-> submitted[i][1]]

\* a batch is sent by a wallet that has no batch method
Sequential ==
    /\ spc \in {"sequential", "done"}
    /\ smethod = "sendTransaction"
    /\ submitted # <<>>
    /\ sresult.kind = "hash" => executedHashes # <<>>

\* C32: a wallet without a batch method gets the entries one per call, in the
\* order of the batch; an entry is handed over only when all before it have
\* resolved; and when an entry is rejected the call ends with the error and
\* no later entry has been handed over.
C32_SequentialInOrder ==
    Sequential =>
        /\ \A i \in 1..Len(submitted) : Len(submitted[i]) = 1
        /\ OneByOne = SubSeq(stxs, 1, Len(submitted))
        /\ spc = "sequential" => Len(submitted) = Len(executedHashes) + 1
        /\ spc = "done" =>
              \/ /\ sresult.kind = "hash"
                 /\ Len(executedHashes) = Len(stxs)
                 /\ Len(submitted) = Len(stxs)
              \/ /\ sresult = SignRaises("rejected")
                 /\ Len(submitted) = Len(executedHashes) + 1

\* C32 witness: the second of three entries was rejected; two entries were
\* handed over and the call ended with the error
C32_Witness ==
    /\ spc = "done" /\ Len(stxs) = 3
    /\ Len(submitted) = 2 /\ Len(submitted[1]) = 1
    /\ Len(executedHashes) = 1
    /\ sresult = SignRaises("rejected")

\* all three entries were handed over in turn and the call has the last hash
C32_WitnessAll ==
    /\ spc = "done" /\ Len(stxs) = 3
    /\ Len(submitted) = 3 /\ Len(submitted[1]) = 1
    /\ sresult.kind = "hash"

\* a step of handleSend that returns at line 196: no text, or the rendered
\* loading flag is set
RejectedSend ==
    \E hasText \in BOOLEAN :
        /\ ~hasText \/ renderedLoading
        /\ HandleSend(hasText)

\* C35: a handleSend that is rejected has no effect: the request in flight is
\* not aborted, and messages, isLoading and the controller stay as they are.
C35_RejectedSendNoEffect ==
    [][RejectedSend => UNCHANGED chatVars]_vars

\* what holds of C35: a rejected handleSend leaves messages, isLoading, the
\* ref and the requests in flight as they are
C35_RejectedSendKeepsState ==
    [][RejectedSend =>
         UNCHANGED <<messages, isLoading, abortControllerRef, inFlight, created>>]_vars

\* a request was aborted by a rejected handleSend and ended without an answer:
\* the list holds the user's message only and nothing is loading
C35_Witness ==
    /\ created = 1 /\ inFlight = {} /\ aborted = {1}
    /\ messages = <<ChatMessage("user", 1)>>
    /\ ~isLoading /\ abortControllerRef = NoController

\* the loading flag and the ref agree, and the controller in the ref is that
\* of a request in flight
LoadingMatchesController ==
    /\ isLoading <=> abortControllerRef # NoController
    /\ isLoading => abortControllerRef \in inFlight

\* C36: under every interleaving of handleSend, resetChat and the ends of the
\* fetches, isLoading is true exactly while a controller is in the ref, that
\* controller belongs to a request in flight, and a loading chat stops loading
\* once its requests have settled.
C36_LoadingWhileInstalled ==
    /\ []LoadingMatchesController
    /\ isLoading ~> ~isLoading

\* C36 witness: the chat was reset while a request was in flight and a new
\* request was sent: the flag is set, the ref holds the new controller, and
\* both requests are in flight
C36_Witness ==
    /\ isLoading /\ abortControllerRef = 2
    /\ inFlight = {1, 2} /\ aborted = {1}
    /\ messages = <<ChatMessage("user", 2)>>

(***************************************************************************)
(* Properties of the wallet state.                                         *)
(***************************************************************************)
\* C37: after disconnect() has reset the state, the balances stay empty until
\* the next wallet sync that finds a wallet: a pass that began before the
\* disconnect and ends after it writes nothing into the state.
C37_BalancesEmptyAfterDisconnect ==
    accountId = NoAccount => balances = EmptyMap

\* what holds of C37: disconnect() itself leaves the balances empty
C37_DisconnectEmpties ==
    [][(accountId # NoAccount /\ accountId' = NoAccount)
          => balances' = EmptyMap]_vars

\* a pass that began before disconnect() has ended after it and has written
\* its entries into the state of a provider without account
C37_Witness ==
    /\ accountId = NoAccount /\ walletAddresses = <<>>
    /\ kpc = "done" /\ kcall.near
    /\ balances # EmptyMap /\ balances = newBalances

\* the keys of state.walletAddresses
AddressKeys == { walletAddresses[i] : i \in 1..Len(walletAddresses) }

\* C38: in every state of the provider connectedChains lists the keys of
\* walletAddresses; accountId is null exactly when walletAddresses is empty;
\* and an accountId is the near address when there is one, else the eth
\* address, else the first address of walletAddresses.
C38_WalletStateConsistent ==
    /\ connectedChains = walletAddresses
    /\ accountId = NoAccount <=> walletAddresses = <<>>
    /\ accountId # NoAccount =>
          /\ "near" \in AddressKeys => accountId = "near"
          /\ ("near" \notin AddressKeys /\ "eth" \in AddressKeys)
                => accountId = "eth"
          /\ ("near" \notin AddressKeys /\ "eth" \notin AddressKeys)
                => accountId = walletAddresses[1]

\* C38 witness: wallets on eth and sol are connected, none on near, and the
\* account is the eth address
C38_Witness ==
    /\ AddressKeys = {"eth", "sol"}
    /\ connectedChains = walletAddresses
    /\ accountId = "eth"

\* neither near nor eth is connected and the account is the first address
C38_WitnessFirst ==
    /\ AddressKeys = {"sol", "999"}
    /\ accountId = walletAddresses[1]
    /\ kitWallets = {"sol", "999", "btc"}

=============================================================================
